---- MODULE Spec2Model ----
(***************************************************************************)
(* A model of the twenty-first library: the base field BFieldElement       *)
(* (src/shared_math/b_field_element.rs), the Rescue-Prime hash and its AIR  *)
(* (src/shared_math/rescue_prime.rs).                                       *)
(*                                                                         *)
(* Word width.  The library computes in the field of p = 2^64 - 2^32 + 1,  *)
(* holding an element in a u128 and exponents in a u64.  TLC's integers    *)
(* are 32 bits wide, so the model keeps every formula of the source and    *)
(* instantiates the machine word at BITS = 8 bits instead of 64: a u64 is  *)
(* a number below 2^BITS, a u128 a number below 2^(2*BITS), and the modulus *)
(* is 2^BITS - 2^(BITS/2) + 1 = 241, a prime of the same shape (p - 1 =    *)
(* 2^(BITS/2) * 15, so the powers of two up to 2^(BITS/2) divide p - 1 as  *)
(* the powers of two up to 2^32 divide 2^64 - 2^32).  Every loop bound,    *)
(* truncation and table of the source is scaled through BITS in the same   *)
(* way and nothing else is changed.                                        *)
(***************************************************************************)
EXTENDS Integers, Sequences, FiniteSets, TLC

VARIABLES
    op,      \* the BFieldElement operation that was called ("idle": none yet)
    a,       \* self, the stored value of the first operand
    b,       \* the stored value of the second operand
    c,       \* the stored value of a third element
    res,     \* the stored value (self.0) of the element the call returned
    failed,  \* TRUE when the call ended in a panic instead of a value
    bytes,   \* the byte vector handed to from_vecu8
    endian,  \* the byte order of the build target ("little" or "big")
    run,     \* what the loop of mod_pow_raw did: [acc, wide, bits]
    vec,     \* the vector handed to batch_inversion
    out,     \* the vector batch_inversion returned
    n,       \* the argument of get_primitive_root_of_unity
    root,    \* the Option<BFieldElement> it returned
    primes,  \* the Vec<u128> of prime factors it returned
    group,   \* get_cyclic_group_elements: self, its locals val and ret, and
             \* where it is ("none": not called)
    rp,      \* the RescuePrime object: its seven fields
    input,   \* the element handed to trace
    omicron, \* the element handed to get_round_constant_polynomials and
             \* to get_air_constraints
    traced,  \* the rows trace returned (<<>>: not called yet)
    rc_pols, \* the pair of lists get_round_constant_polynomials returned
    air,     \* the list of polynomials get_air_constraints returned
    hash_state,  \* the local `state` of hash (<<>>: hash not entered)
    hash_round_number, \* the round the fold of hash applies next
    hashed,  \* the Option of the element hash returned (None: not yet)
    evaled,  \* the pair <<output, trace>> eval_and_trace returned
    boundary, \* the list get_boundary_constraints returned
    accumulator, \* the MmrAccumulator: leaf_count and peaks
    leaf_hashes, \* the leaf list the accumulator was built over, as the
                 \* caller knows it
    initial_leaves, \* how many digests the accumulator was made from
    appends,     \* how many calls of append returned
    last         \* the call that just returned: method, arguments, self
                 \* before it, results ("none": the caller moved on)

fieldVars ==
    <<op, a, b, c, res, failed, bytes, endian, run, vec, out, n, root, primes,
      group>>

rescueVars == <<rp, input, omicron, traced, rc_pols, air>>

hashVars == <<hash_state, hash_round_number, hashed, evaled, boundary>>

mmrVars ==
    <<accumulator, leaf_hashes, initial_leaves, appends, last>>

vars == <<fieldVars, rescueVars, hashVars, mmrVars>>

----------------------------------------------------------------------------
(* Machine integers *)

\* the width of the model's u64; the model's u128 is twice as wide
BITS == 8

RECURSIVE Pow2(_)
Pow2(k) == IF k = 0 THEN 1 ELSE 2 * Pow2(k - 1)

U64 == Pow2(BITS)
U128 == Pow2(2 * BITS)

\* `n as u64`: the low BITS bits of a u128
AsU64(value) == value % U64

\* Rust's % on signed integers: the remainder has the sign of the dividend
RemI(x, y) == IF x >= 0 THEN x % y ELSE -((-x) % y)

Some(v) == [some |-> TRUE, val |-> v]
None == [some |-> FALSE, val |-> 0]

----------------------------------------------------------------------------
(* BFieldElement: b_field_element.rs *)

QUOTIENT == Pow2(BITS) - Pow2(BITS \div 2) + 1
MAX == QUOTIENT - 1

\* the values an element is meant to hold: [0, p)
Canonical == 0 .. MAX

new(value) == value % QUOTIENT

\* increment without the reduction
increment_unreduced(self) == self + 1

increment(self) == (self + 1) % QUOTIENT

decrement(self) == (MAX + self) % QUOTIENT

\* the loop of mod_pow_raw reading the exponent from its least significant bit
ModPowStepLsbFirst(st, res0, pow, i) ==
    LET sq == st.acc * st.acc
        acc1 == sq % QUOTIENT
        set == (pow \div Pow2(i)) % 2 /= 0
        pr == acc1 * res0
    IN  [acc |-> IF set THEN pr % QUOTIENT ELSE acc1,
         wide |-> st.wide \/ sq >= U128 \/ (set /\ pr >= U128),
         bits |-> Append(st.bits, i)]

\* One pass of the loop of mod_pow_raw, for i of 0 .. BITS-1, which reads
\* bit BITS-1-i of the exponent; st = [acc, wide, bits]: the accumulator,
\* whether a product left the u128 range, and the bits scanned so far.
ModPowStep(st, res0, pow, i) ==
    LET sq == st.acc * st.acc
        acc1 == sq % QUOTIENT
        set == (pow \div Pow2(BITS - 1 - i)) % 2 /= 0
        pr == acc1 * res0
    IN  [acc |-> IF set THEN pr % QUOTIENT ELSE acc1,
         wide |-> st.wide \/ sq >= U128 \/ (set /\ pr >= U128),
         bits |-> Append(st.bits, BITS - 1 - i)]

RECURSIVE ModPowLoop(_, _, _, _)
ModPowLoop(st, res0, pow, i) ==
    IF i >= BITS THEN st
    ELSE ModPowLoop(ModPowStep(st, res0, pow, i), res0, pow, i + 1)

\* mod_pow_raw with its bookkeeping: the result, the overflow flag and the
\* exponent bits in the order they were scanned
ModPowRun(self, pow) ==
    IF pow = 0 THEN [acc |-> 1, wide |-> FALSE, bits |-> <<>>]
    ELSE ModPowLoop([acc |-> 1, wide |-> FALSE, bits |-> <<>>], self, pow, 0)

mod_pow_raw(self, pow) == ModPowRun(self, pow).acc

mod_pow(self, pow) == mod_pow_raw(self, pow)

legendre_symbol(self) ==
    LET elem == mod_pow(self, AsU64(QUOTIENT - 1) \div 2)
    IN  IF elem = QUOTIENT - 1 THEN -1 ELSE IF elem = 0 THEN 0 ELSE 1

\* other::xgcd (extended Euclid on signed integers): x, y are the running
\* remainders, (af, a1) and (bf, b1) the running Bezout coefficients.
RECURSIVE XgcdLoop(_, _, _, _, _, _)
XgcdLoop(x, y, af, a1, bf, b1) ==
    IF y = 0 THEN <<x, af, bf>>
    ELSE LET quotient == x \div y
             remainder == x % y
         IN  XgcdLoop(y, remainder, a1, af - quotient * a1, b1, bf - quotient * b1)

xgcd(x, y) == XgcdLoop(x, y, 1, 0, 0, 1)

inverse(self) ==
    LET g == xgcd(QUOTIENT, self)
    IN  RemI(RemI(g[3], QUOTIENT) + QUOTIENT, QUOTIENT)

\* add with the reduction left out
add_unreduced(self, other) == self + other

add(self, other) == (self + other) % QUOTIENT

\* mul with the reduction left out
mul_unreduced(self, other) == self * other

mul(self, other) == (self * other) % QUOTIENT

neg(self) == QUOTIENT - self

sub(self, other) == add(neg(other), self)

div(self, other) == (inverse(other) * self) % QUOTIENT

\* PRIMITIVE_ROOTS: a root of order 2^k for every 2^k dividing p - 1, which
\* in the model is k = 1 .. BITS/2 (1 .. 32 in the source).  The entries are
\* those the source's test prints for the model's p: 7^((p-1)/2^k).
PRIMITIVE_ROOTS == (2 :> 240) @@ (4 :> 177) @@ (8 :> 30) @@ (16 :> 111)

\* utils::FIRST_THOUSAND_PRIMES: the first primes, in the model the four
\* below 2^(BITS/2) / 2
FIRST_THOUSAND_PRIMES == <<2, 3, 5, 7>>

\* primes_lt: the sieve marks 2 and the odd numbers, then for num = 3, 5, ..
\* with num * num <= bound clears num * num, num * num + num, .. ; what is
\* left from 2 up to bound (inclusive) is returned in ascending order.
primes_lt(bound) ==
    LET Cleared(j) ==
            \E num \in 3 .. bound :
                /\ num % 2 = 1
                /\ num * num <= j
                /\ (j - num * num) % num = 0
        Marked(j) == (j = 2 \/ j % 2 /= 0) /\ ~Cleared(j)
    IN  SelectSeq([i \in 1 .. bound - 1 |-> i + 1], Marked)

\* n & (n - 1) on u128
RECURSIVE BitAnd(_, _)
BitAnd(x, y) ==
    IF x = 0 \/ y = 0 THEN 0
    ELSE (x % 2) * (y % 2) + 2 * BitAnd(x \div 2, y \div 2)

\* `while m % prime == 0 { m /= prime }`
RECURSIVE DivideOut(_, _)
DivideOut(m, prime) ==
    IF m % prime = 0 THEN DivideOut(m \div prime, prime) ELSE m

\* the loop over FIRST_THOUSAND_PRIMES from index k on: [m, primes]
RECURSIVE SmallFactors(_, _, _)
SmallFactors(m, found, k) ==
    IF k > Len(FIRST_THOUSAND_PRIMES) \/ m = 1 THEN [m |-> m, primes |-> found]
    ELSE LET prime == FIRST_THOUSAND_PRIMES[k]
         IN  IF m % prime = 0
             THEN SmallFactors(DivideOut(m, prime), Append(found, prime), k + 1)
             ELSE SmallFactors(m, found, k + 1)

\* the prime factorization of n (lines 369-394)
Factorize(arg) ==
    IF BitAnd(arg, arg - 1) = 0 THEN <<2>>
    ELSE LET small == SmallFactors(arg, <<>>, 1)
             DividesArg(x) == arg % x = 0
         IN  IF small.m > 1
             THEN small.primes \o SelectSeq(primes_lt(small.m), DividesArg)
             ELSE small.primes

\* the test of a candidate (lines 405-410)
IsGenerator(candidate, arg, factors) ==
    /\ -legendre_symbol(candidate) = 1
    /\ \A k \in 1 .. Len(factors) :
          arg % factors[k] = 0 =>
              mod_pow_raw(candidate, AsU64((QUOTIENT - 1) \div factors[k])) /= 1

\* the scan of the candidates from `candidate` on (lines 401-416)
RECURSIVE CandidateScan(_, _, _)
CandidateScan(candidate, arg, factors) ==
    IF candidate >= QUOTIENT THEN None
    ELSE IF IsGenerator(candidate, arg, factors)
         THEN Some(mod_pow(candidate, AsU64((QUOTIENT - 1) \div arg)))
         ELSE CandidateScan(candidate + 1, arg, factors)

get_primitive_root_of_unity(arg) ==
    IF AsU64(arg) \in DOMAIN PRIMITIVE_ROOTS
    THEN [root |-> Some(new(PRIMITIVE_ROOTS[AsU64(arg)])), primes |-> <<2>>]
    ELSE IF arg <= 1 THEN [root |-> Some(1), primes |-> <<>>]
    ELSE LET factors == Factorize(arg)
         IN  IF (QUOTIENT - 1) % arg /= 0
             THEN [root |-> None, primes |-> factors]
             ELSE [root |-> CandidateScan(1, arg, factors), primes |-> factors]

\* PrimeField::batch_inversion (Montgomery's trick): one inversion of the
\* product of all the inputs.  PrefixProduct(v, k) is acc after the first
\* loop has taken k elements, so scratch[i] = PrefixProduct(v, i - 1).
RECURSIVE PrefixProduct(_, _)
PrefixProduct(v, k) ==
    IF k = 0 THEN 1 ELSE mul(PrefixProduct(v, k - 1), v[k])

\* acc when the second loop, which runs from the last index down, reaches i
RECURSIVE BackAcc(_, _)
BackAcc(v, i) ==
    IF i = Len(v) THEN inverse(PrefixProduct(v, Len(v)))
    ELSE mul(BackAcc(v, i + 1), v[i + 1])

batch_inversion(v) ==
    IF Len(v) = 0 THEN <<>>
    ELSE [i \in 1 .. Len(v) |-> mul(BackAcc(v, i), PrefixProduct(v, i - 1))]

\* A byte of the model holds BITS/8 bits, so that a u64 is 8 bytes wide as
\* in the source.
ByteBase == Pow2(BITS \div 8)
SizeOfU64 == 8

\* u64::from_ne_bytes: the bytes of a u64 in the byte order of the target
RECURSIVE FromLeBytes(_)
FromLeBytes(bs) ==
    IF bs = <<>> THEN 0 ELSE bs[1] + ByteBase * FromLeBytes(Tail(bs))

Reverse(s) == [i \in 1 .. Len(s) |-> s[Len(s) + 1 - i]]

from_ne_bytes(bs, order) ==
    IF order = "little" THEN FromLeBytes(bs) ELSE FromLeBytes(Reverse(bs))

\* from_vecu8: split_at panics on fewer than 8 bytes; the rest is dropped
from_vecu8(bs, order) ==
    IF Len(bs) < SizeOfU64 THEN [failed |-> TRUE, val |-> 0]
    ELSE LET value == from_ne_bytes(SubSeq(bs, 1, SizeOfU64), order)
         IN  [failed |-> FALSE, val |-> new(value)]

----------------------------------------------------------------------------
(* The element operations as calls: SpecField *)

\* how far from 0 and from p - 1 the second and third operands are drawn
MaxOperand == 3

Operands == (0 .. MaxOperand) \cup ((MAX - MaxOperand) .. MAX)

\* no call yet
NoRun == [acc |-> 1, wide |-> FALSE, bits |-> <<>>]
NoGroup == [self |-> 0, val |-> 0, ret |-> <<>>, pc |-> "none"]
NoCall ==
    op = "idle" /\ res = 0 /\ failed = FALSE /\ run = NoRun /\ group = NoGroup

\* parts of the state a specification does not use
NoOperands == a = 0 /\ b = 0 /\ c = 0
NoBytes == bytes = <<>> /\ endian = "little"
NoVector == vec = <<>> /\ out = <<>>
NoRoot == n = 0 /\ root = None /\ primes = <<>>
NoParams ==
    [m |-> 0, steps_count |-> 0, alpha |-> 0, alpha_inv |-> 0,
     mds |-> <<>>, mds_inv |-> <<>>, round_constants |-> <<>>]
NoHash ==
    /\ hash_state = <<>>
    /\ hash_round_number = 0
    /\ hashed = None
    /\ evaled = <<>>
    /\ boundary = <<>>
NoMethod ==
    [method |-> "none", panicked |-> FALSE,
     before |-> [leaf_count |-> 0, peaks |-> <<>>], leafs |-> <<>>,
     membership_proof |-> [data_index |-> 0, authentication_path |-> <<>>],
     new_leaf |-> <<0>>, mutation_data |-> <<>>, membership_proofs |-> <<>>,
     indices |-> <<>>, new_peaks |-> <<>>, appended_leafs |-> <<>>,
     returned |-> FALSE, supplied |-> <<>>]
NoMmr ==
    /\ accumulator = [leaf_count |-> 0, peaks |-> <<>>]
    /\ leaf_hashes = <<>>
    /\ initial_leaves = 0
    /\ appends = 0
    /\ last = NoMethod
NoRescue ==
    /\ rp = NoParams
    /\ input = 0
    /\ omicron = 0
    /\ traced = <<>>
    /\ rc_pols = <<>>
    /\ air = <<>>
    /\ NoHash
    /\ NoMmr

FieldInit ==
    /\ NoCall
    /\ a \in Canonical
    /\ b \in Operands
    /\ c \in Operands
    /\ NoBytes
    /\ NoVector
    /\ NoRoot
    /\ NoRescue

Returns(name, value) ==
    /\ op = "idle"
    /\ op' = name
    /\ res' = value
    /\ failed' = FALSE
    /\ UNCHANGED <<a, b, c, bytes, endian, run, vec, out, n, root, primes>>
    /\ UNCHANGED <<group, rescueVars, hashVars, mmrVars>>

\* the u128 handed to new: a, or a plus a multiple of p
NewArg == a + QUOTIENT * b

CallNew == Returns("new", new(NewArg))
CallIncrement == Returns("increment", increment(a))
CallDecrement == Returns("decrement", decrement(a))
CallAdd == Returns("add", add(a, b))
CallSub == Returns("sub", sub(a, b))
CallNeg == Returns("neg", neg(a))
CallMul == Returns("mul", mul(a, b))
CallDiv == Returns("div", div(a, b))
CallInverse == Returns("inverse", inverse(a))
CallModPow ==
    /\ op = "idle"
    /\ op' = "mod_pow"
    /\ res' = mod_pow(a, b)
    /\ run' = ModPowRun(a, b)
    /\ failed' = FALSE
    /\ UNCHANGED <<a, b, c, bytes, endian, vec, out, n, root, primes>>
    /\ UNCHANGED <<group, rescueVars, hashVars, mmrVars>>

FieldNext ==
    \/ CallNew
    \/ CallIncrement
    \/ CallDecrement
    \/ CallAdd
    \/ CallSub
    \/ CallNeg
    \/ CallMul
    \/ CallDiv
    \/ CallInverse
    \/ CallModPow

Init == FieldInit

Next == FieldNext

Spec == Init /\ [][Next]_vars

----------------------------------------------------------------------------
(* Decoding an element from bytes: SpecWire *)

\* the longest byte vector handed to from_vecu8
MaxBytes == 9

RECURSIVE ByteSeqs(_)
ByteSeqs(len) ==
    IF len = 0 THEN {<<>>}
    ELSE LET shorter == ByteSeqs(len - 1)
         IN  shorter \cup {Append(s, d) : s \in {t \in shorter : Len(t) = len - 1},
                                          d \in 0 .. ByteBase - 1}

WireInit ==
    /\ NoCall
    /\ NoOperands
    /\ bytes \in ByteSeqs(MaxBytes)
    /\ endian \in {"little", "big"}
    /\ NoVector
    /\ NoRoot
    /\ NoRescue

CallFromVecu8 ==
    /\ op = "idle"
    /\ op' = "from_vecu8"
    /\ res' = from_vecu8(bytes, endian).val
    /\ failed' = from_vecu8(bytes, endian).failed
    /\ UNCHANGED <<a, b, c, bytes, endian, run, vec, out, n, root, primes>>
    /\ UNCHANGED <<group, rescueVars, hashVars, mmrVars>>

WireNext == CallFromVecu8

SpecWire == WireInit /\ [][WireNext]_vars

----------------------------------------------------------------------------
(* mod_pow on every element and every u64 exponent: SpecPow *)

\* a is the element, b the exponent
PowInit ==
    /\ NoCall
    /\ a \in Canonical
    /\ b \in 0 .. U64 - 1
    /\ c = 0
    /\ NoBytes
    /\ NoVector
    /\ NoRoot
    /\ NoRescue

PowNext == CallModPow

SpecPow == PowInit /\ [][PowNext]_vars

----------------------------------------------------------------------------
(* batch_inversion on vectors of non-zero elements: SpecBatch *)

\* the longest vector handed to batch_inversion
MaxVecLen == 3

NonZeroOperands == Operands \ {0}

RECURSIVE VectorsOver(_, _)
VectorsOver(S, len) ==
    IF len = 0 THEN {<<>>}
    ELSE LET shorter == VectorsOver(S, len - 1)
         IN  shorter \cup {Append(v, x) : v \in {t \in shorter : Len(t) = len - 1},
                                          x \in S}

\* every vector of one non-zero element, and the vectors of up to MaxVecLen
\* elements near 0 and near p - 1
BatchInit ==
    /\ NoCall
    /\ NoOperands
    /\ NoBytes
    /\ vec \in VectorsOver(NonZeroOperands, MaxVecLen) \cup {<<x>> : x \in 1 .. MAX}
    /\ out = <<>>
    /\ NoRoot
    /\ NoRescue

CallBatchInversion ==
    /\ op = "idle"
    /\ op' = "batch_inversion"
    /\ out' = batch_inversion(vec)
    /\ UNCHANGED <<a, b, c, res, failed, bytes, endian, run, vec, n, root, primes>>
    /\ UNCHANGED <<group, rescueVars, hashVars, mmrVars>>

BatchNext == CallBatchInversion

SpecBatch == BatchInit /\ [][BatchNext]_vars

----------------------------------------------------------------------------
(* get_primitive_root_of_unity: SpecRoot *)

\* the largest order asked for; it is above 2^BITS, the range of a u64
MaxRootArg == 300

RootInit ==
    /\ NoCall
    /\ NoOperands
    /\ NoBytes
    /\ NoVector
    /\ n \in 0 .. MaxRootArg
    /\ root = None
    /\ primes = <<>>
    /\ NoRescue

CallGetPrimitiveRootOfUnity ==
    /\ op = "idle"
    /\ op' = "get_primitive_root_of_unity"
    /\ root' = get_primitive_root_of_unity(n).root
    /\ primes' = get_primitive_root_of_unity(n).primes
    /\ UNCHANGED <<a, b, c, res, failed, bytes, endian, run, vec, out, n>>
    /\ UNCHANGED <<group, rescueVars, hashVars, mmrVars>>

RootNext == CallGetPrimitiveRootOfUnity

SpecRoot == RootInit /\ [][RootNext]_vars

----------------------------------------------------------------------------
(* Claims about the element operations *)

ElementOps ==
    {"new", "increment", "decrement", "add", "sub", "neg", "mul", "div",
     "inverse", "mod_pow"}

\* C1 (as claimed): every element returned by new, increment, decrement,
\* add, sub, neg, mul, div, inverse or mod_pow on operands below p holds a
\* stored value below p, for every input, zero included.
C1_CanonicalResults ==
    (op \in ElementOps /\ a \in Canonical /\ b \in Canonical) => res \in Canonical

\* C2: the field laws on canonical elements a, b, c: add and mul are
\* commutative and associative, mul distributes over add, a + 0 = a,
\* a * 1 = a, (-a) + a = 0, a * inverse(a) = 1 for a /= 0, (a * b) / b = a
\* and (a / b) * b = a for b /= 0, a - b + b = a and a - a = 0.  Each law is
\* read off the state the call of its outermost-left operation returned.
C2_FieldLaws ==
    /\ op = "add" =>
          /\ res = add(b, a)
          /\ add(res, c) = add(a, add(b, c))
          /\ (b = 0 => res = a)
    /\ op = "mul" =>
          /\ res = mul(b, a)
          /\ mul(res, c) = mul(a, mul(b, c))
          /\ add(res, mul(a, c)) = mul(a, add(b, c))
          /\ (b = 1 => res = a)
          /\ (b /= 0 => div(res, b) = a)
    /\ op = "neg" => add(res, a) = 0
    /\ op = "inverse" => (a /= 0 => mul(a, res) = 1)
    /\ op = "div" => (b /= 0 => mul(res, b) = a)
    /\ op = "sub" =>
          /\ add(res, b) = a
          /\ (a = b => res = 0)

\* C2 witness: the quotient 1 / (p - 2) was returned and is neither operand
C2_Witness ==
    op = "div" /\ a = 1 /\ b = MAX - 1 /\ res = (MAX \div 2) /\ mul(res, b) = a

\* C7 (as claimed): inverse of the zero element and division by the zero
\* element end in an error instead of returning an element.
C7_ZeroIsRejected ==
    ((op = "inverse" /\ a = 0) \/ (op = "div" /\ b = 0)) => failed

\* C8 (as claimed): from_vecu8 returns no element for 8 bytes whose integer
\* value is p or more.
C8_NonCanonicalRejected ==
    (/\ op = "from_vecu8"
     /\ Len(bytes) >= SizeOfU64
     /\ from_ne_bytes(SubSeq(bytes, 1, SizeOfU64), endian) >= QUOTIENT) => failed

C3_BatchInversion ==
    op = "batch_inversion" =>
        /\ Len(out) = Len(vec)
        /\ \A i \in 1 .. Len(vec) : out[i] = inverse(vec[i])
        /\ batch_inversion(out) = vec

\* C3 witness: a vector of three distinct elements came back inverted
C3_Witness ==
    /\ op = "batch_inversion"
    /\ vec = <<2, MAX, 3>>
    /\ out = <<inverse(2), MAX, inverse(3)>>
    /\ out /= vec

----------------------------------------------------------------------------
(* Claims about get_primitive_root_of_unity *)

\* d divides x, for every d of the argument type (zero divides nothing here)
Divides(d, x) == d /= 0 /\ x % d = 0

\* x^e in the field by repeated squaring, for exponents of any width
RECURSIVE FieldPower(_, _)
FieldPower(x, e) ==
    IF e = 0 THEN 1
    ELSE LET half == FieldPower(x, e \div 2)
             sq == (half * half) % QUOTIENT
         IN  IF e % 2 = 1 THEN (sq * x) % QUOTIENT ELSE sq

IsPrime(q) == q >= 2 /\ \A d \in 2 .. q - 1 : q % d /= 0

\* C5: get_primitive_root_of_unity(n) returns Some(root) if and only if n
\* divides p - 1, for every n of the argument type; otherwise it returns None.
C5_SomeIffDivides ==
    op = "get_primitive_root_of_unity" => (root.some <=> Divides(n, QUOTIENT - 1))

\* C6: whenever get_primitive_root_of_unity(n) returns Some(w) for n >= 2, w
\* has exact multiplicative order n: w^n = 1 and w^(n/q) /= 1 for every prime
\* q dividing n; in particular so do the entries of the table of the orders 2^k.
C6_ExactOrder ==
    (op = "get_primitive_root_of_unity" /\ root.some /\ n >= 2) =>
        /\ FieldPower(root.val, n) = 1
        /\ \A q \in 2 .. n :
              (IsPrime(q) /\ n % q = 0) => FieldPower(root.val, n \div q) /= 1

----------------------------------------------------------------------------
(* Univariate and multivariate polynomials, generator domains *)

\* Polynomial: the coefficient sequence, lowest degree first.
PolyAdd(p, q) ==
    LET len == IF Len(p) >= Len(q) THEN Len(p) ELSE Len(q)
        At(r, j) == IF j <= Len(r) THEN r[j] ELSE 0
    IN  [j \in 1 .. len |-> add(At(p, j), At(q, j))]

PolyScale(p, k) == [j \in 1 .. Len(p) |-> mul(p[j], k)]

\* p * (X - r)
PolyMulLinear(p, r) ==
    LET At(j) == IF j >= 1 /\ j <= Len(p) THEN p[j] ELSE 0
    IN  [j \in 1 .. Len(p) + 1 |-> sub(At(j - 1), mul(r, At(j)))]

\* the product of (X - x_k) over the points k <= upto other than j
RECURSIVE BasisNumerator(_, _, _)
BasisNumerator(points, j, upto) ==
    IF upto = 0 THEN <<1>>
    ELSE IF upto = j THEN BasisNumerator(points, j, upto - 1)
    ELSE PolyMulLinear(BasisNumerator(points, j, upto - 1), points[upto][1])

\* the product of (x_j - x_k) over the points k <= upto other than j
RECURSIVE BasisDenominator(_, _, _)
BasisDenominator(points, j, upto) ==
    IF upto = 0 THEN 1
    ELSE IF upto = j THEN BasisDenominator(points, j, upto - 1)
    ELSE mul(BasisDenominator(points, j, upto - 1),
             sub(points[j][1], points[upto][1]))

\* the sum of the first `upto` Lagrange terms y_j * N_j / d_j
RECURSIVE LagrangeSum(_, _)
LagrangeSum(points, upto) ==
    IF upto = 0 THEN <<>>
    ELSE PolyAdd(LagrangeSum(points, upto - 1),
                 PolyScale(BasisNumerator(points, upto, Len(points)),
                           div(points[upto][2],
                               BasisDenominator(points, upto, Len(points)))))

\* Polynomial::slow_lagrange_interpolation: the coefficients of the
\* polynomial of degree < Len(points) through the points <<x, y>>
slow_lagrange_interpolation(points) == LagrangeSum(points, Len(points))

\* Polynomial::evaluate, by Horner's rule from coefficient j up
RECURSIVE PolyEvaluate(_, _, _)
PolyEvaluate(p, x, j) ==
    IF j > Len(p) THEN 0
    ELSE add(p[j], mul(x, PolyEvaluate(p, x, j + 1)))

\* MPolynomial: the polynomial as the term the constructors build
MVariable(i) == [kind |-> "variable", index |-> i]
MFromConstant(k) == [kind |-> "constant", value |-> k]
MAdd(p, q) == [kind |-> "add", lhs |-> p, rhs |-> q]
MSub(p, q) == [kind |-> "sub", lhs |-> p, rhs |-> q]
MScalarMul(p, k) == [kind |-> "scalar_mul", arg |-> p, value |-> k]
MModPow(p, e) == [kind |-> "mod_pow", arg |-> p, exp |-> e]
MLift(coefficients, i) ==
    [kind |-> "lift", coefficients |-> coefficients, index |-> i]

\* MPolynomial::evaluate at a point; variable i is point[i + 1]
RECURSIVE MEvaluate(_, _)
MEvaluate(p, point) ==
    CASE p.kind = "variable" -> point[p.index + 1]
      [] p.kind = "constant" -> p.value
      [] p.kind = "add" -> add(MEvaluate(p.lhs, point), MEvaluate(p.rhs, point))
      [] p.kind = "sub" -> sub(MEvaluate(p.lhs, point), MEvaluate(p.rhs, point))
      [] p.kind = "scalar_mul" -> mul(MEvaluate(p.arg, point), p.value)
      [] p.kind = "mod_pow" -> FieldPower(MEvaluate(p.arg, point), p.exp)
      [] p.kind = "lift" -> PolyEvaluate(p.coefficients, point[p.index + 1], 1)

\* the multiplicative order of a non-zero element
MultiplicativeOrder(g) ==
    CHOOSE k \in 1 .. MAX :
        /\ FieldPower(g, k) = 1
        /\ \A j \in 1 .. k - 1 : FieldPower(g, j) /= 1

\* GetGeneratorDomain::get_generator_domain: 1, g, g^2, .. up to the last
\* power before the powers return to 1
get_generator_domain(g) ==
    [j \in 1 .. MultiplicativeOrder(g) |-> FieldPower(g, j - 1)]

----------------------------------------------------------------------------
(* RescuePrime *)

\* temp[i] after the inner loop over j = 0 .. upto - 1
RECURSIVE MatrixRow(_, _, _)
MatrixRow(row, state, upto) ==
    IF upto = 0 THEN 0
    ELSE add(MatrixRow(row, state, upto - 1), mul(row[upto], state[upto]))

\* Iterator::collect: the items of the iterator, computed, as a Vec
collect(items) == SubSeq(items, 1, Len(items))

\* the round with the forward S-box in both halves
hash_round_forward_twice(self, input_state, round_number) ==
    LET sbox == collect([i \in 1 .. Len(input_state) |->
                    mod_pow(input_state[i], self.alpha)])
        temp == collect([i \in 1 .. self.m |->
                    MatrixRow(self.mds[i], sbox, self.m)])
        state == collect([i \in 1 .. self.m |->
                    add(temp[i],
                        self.round_constants[2 * round_number * self.m + i])])
        back == collect([i \in 1 .. self.m |->
                    mod_pow(state[i], self.alpha)])
        temp2 == collect([i \in 1 .. self.m |->
                    MatrixRow(self.mds[i], back, self.m)])
    IN  collect([i \in 1 .. self.m |->
            add(temp2[i],
                self.round_constants[2 * round_number * self.m + self.m + i])])

hash_round(self, input_state, round_number) ==
    LET sbox == collect([i \in 1 .. Len(input_state) |->
                    mod_pow(input_state[i], self.alpha)])
        temp == collect([i \in 1 .. self.m |->
                    MatrixRow(self.mds[i], sbox, self.m)])
        state == collect([i \in 1 .. self.m |->
                    add(temp[i],
                        self.round_constants[2 * round_number * self.m + i])])
        back == collect([i \in 1 .. self.m |->
                    mod_pow(state[i], self.alpha_inv)])
        temp2 == collect([i \in 1 .. self.m |->
                    MatrixRow(self.mds[i], back, self.m)])
    IN  collect([i \in 1 .. self.m |->
            add(temp2[i],
                self.round_constants[2 * round_number * self.m + self.m + i])])

\* state = (input, 0, .., 0)
InitialState(self, x) == [i \in 1 .. self.m |-> IF i = 1 THEN x ELSE 0]

\* the rows pushed after `upto` iterations of the loop of trace
RECURSIVE TraceRows(_, _, _)
TraceRows(self, x, upto) ==
    IF upto = 0 THEN <<InitialState(self, x)>>
    ELSE LET rows == TraceRows(self, x, upto - 1)
         IN  Append(rows, hash_round(self, rows[upto], upto - 1))

trace(self, x) == TraceRows(self, x, self.steps_count)

\* a stride of half the step
SkipStepByHalf(s, offset, step) ==
    LET count == IF Len(s) > offset
                 THEN (Len(s) - offset + (step \div 2) - 1) \div (step \div 2)
                 ELSE 0
    IN  [j \in 1 .. count |-> s[offset + (j - 1) * (step \div 2) + 1]]

\* round_constants.into_iter().skip(offset).step_by(step).collect()
SkipStepBy(s, offset, step) ==
    LET count == IF Len(s) > offset
                 THEN (Len(s) - offset + step - 1) \div step ELSE 0
    IN  [j \in 1 .. count |-> s[offset + (j - 1) * step + 1]]

\* domain.iter().zip(values.iter()).collect(): as long as the shorter one
Zip(s, t) ==
    LET len == IF Len(s) <= Len(t) THEN Len(s) ELSE Len(t)
    IN  [j \in 1 .. len |-> <<s[j], t[j]>>]

\* the body of either loop of get_round_constant_polynomials
RoundConstantPolynomial(self, domain, offset) ==
    LET values == SkipStepBy(self.round_constants, offset, 2 * self.m)
        points == Zip(domain, values)
    IN  MLift(slow_lagrange_interpolation(points), 0)

get_round_constant_polynomials(self, g) ==
    LET domain == get_generator_domain(g)
    IN  << [i \in 1 .. self.m |->
               RoundConstantPolynomial(self, domain, i - 1)],
           [i \in 1 .. self.m |->
               RoundConstantPolynomial(self, domain, i - 1 + self.m)] >>

\* lhs after the loop over k = 0 .. upto - 1 (row i of mds)
RECURSIVE AirLhs(_, _, _)
AirLhs(self, i, upto) ==
    IF upto = 0 THEN MFromConstant(0)
    ELSE MAdd(AirLhs(self, i, upto - 1),
              MScalarMul(MModPow(MVariable(upto), self.alpha),
                         self.mds[i][upto]))

\* the right-hand side built from mds instead of mds_inv
RECURSIVE AirRhsWithMds(_, _, _, _)
AirRhsWithMds(self, second_step_constants, i, upto) ==
    IF upto = 0 THEN MFromConstant(0)
    ELSE MAdd(AirRhsWithMds(self, second_step_constants, i, upto - 1),
              MScalarMul(MSub(MVariable(self.m + upto),
                              second_step_constants[upto]),
                         self.mds[i][upto]))

\* rhs after the loop over k = 0 .. upto - 1 (row i of mds_inv)
RECURSIVE AirRhs(_, _, _, _)
AirRhs(self, second_step_constants, i, upto) ==
    IF upto = 0 THEN MFromConstant(0)
    ELSE MAdd(AirRhs(self, second_step_constants, i, upto - 1),
              MScalarMul(MSub(MVariable(self.m + upto),
                              second_step_constants[upto]),
                         self.mds_inv[i][upto]))

get_air_constraints(self, g) ==
    LET constants == get_round_constant_polynomials(self, g)
        first_step_constants == constants[1]
        second_step_constants == constants[2]
    IN  [i \in 1 .. self.m |->
            MSub(MAdd(AirLhs(self, i, self.m), first_step_constants[i]),
                 MModPow(AirRhs(self, second_step_constants, i, self.m),
                         self.alpha))]

\* the first constraint put on register 0
get_boundary_constraints_on_register_zero(self, output_element) ==
    << [cycle |-> 0, register |-> 0, value |-> 0],
       [cycle |-> self.steps_count, register |-> 0, value |-> output_element] >>

get_boundary_constraints(self, output_element) ==
    << [cycle |-> 0, register |-> 1, value |-> 0],
       [cycle |-> self.steps_count, register |-> 0, value |-> output_element] >>

----------------------------------------------------------------------------
(* RescuePrime as a state machine: SpecRescue *)

MaxSteps == 3
MaxSeed == 2
MaxInput == 1
MaxOrder == 5

\* <<alpha, alpha_inv>>; the last pair is not inverse mod p - 1
Exponents == {<<7, 103>>, <<11, 131>>, <<7, 131>>}

\* <<mds, mds_inv>>; in the last pair mds_inv is not the inverse of mds
Matrices ==
    { << <<<<2, 1>>, <<1, 1>>>>, <<<<1, MAX>>, <<MAX, 2>>>> >>,
      << <<<<1, 2>>, <<3, 7>>>>, <<<<7, MAX - 1>>, <<MAX - 2, 1>>>> >>,
      << <<<<1, 1, 0>>, <<0, 1, 1>>, <<0, 0, 1>>>>,
         <<<<1, MAX, 1>>, <<0, 1, MAX>>, <<0, 0, 1>>>> >>,
      << <<<<2, 1>>, <<1, 1>>>>, <<<<2, 1>>, <<1, 1>>>> >> }

RoundConstants(seed, len) ==
    [k \in 1 .. len |-> (seed * k * k + 3 * k + 5) % QUOTIENT]

Params ==
    { [m |-> Len(mat[1]), steps_count |-> s,
       alpha |-> e[1], alpha_inv |-> e[2],
       mds |-> mat[1], mds_inv |-> mat[2],
       round_constants |-> RoundConstants(seed, 2 * (s + extra) * Len(mat[1]))] :
         mat \in Matrices, e \in Exponents, s \in 1 .. MaxSteps,
         seed \in 1 .. MaxSeed, extra \in {0, 1} }

\* the elements of small order, and the generator 7
Omicrons == {g \in 1 .. MAX : MultiplicativeOrder(g) <= MaxOrder} \cup {7}

RescueInit ==
    /\ NoCall
    /\ NoOperands
    /\ NoBytes
    /\ NoVector
    /\ NoRoot
    /\ rp \in Params
    /\ input \in (0 .. MaxInput) \cup {MAX}
    /\ omicron \in Omicrons
    /\ traced = <<>>
    /\ rc_pols = <<>>
    /\ air = <<>>
    /\ NoHash
    /\ NoMmr

\* The three calls are made in the order of the library's own use of them
\* (air_is_zero_on_execution_trace_test): each is a function of self and of
\* its argument alone, so no other order gives another result.
CallTrace ==
    /\ rc_pols /= <<>>
    /\ traced = <<>>
    /\ traced' = trace(rp, input)
    /\ UNCHANGED <<mmrVars, fieldVars, rp, input, omicron, rc_pols, air, hashVars>>

CallGetRoundConstantPolynomials ==
    /\ rc_pols = <<>>
    /\ rc_pols' = get_round_constant_polynomials(rp, omicron)
    /\ UNCHANGED <<mmrVars, fieldVars, rp, input, omicron, traced, air, hashVars>>

CallGetAirConstraints ==
    /\ traced /= <<>>
    /\ air = <<>>
    /\ air' = get_air_constraints(rp, omicron)
    /\ UNCHANGED <<mmrVars, fieldVars, rp, input, omicron, traced, rc_pols, hashVars>>

RescueNext ==
    \/ CallTrace
    \/ CallGetRoundConstantPolynomials
    \/ CallGetAirConstraints

SpecRescue == RescueInit /\ [][RescueNext]_vars

----------------------------------------------------------------------------
(* Claims about RescuePrime *)

\* alpha * alpha_inv = 1 mod (p - 1), and mds_inv is the inverse of mds
ValidParams ==
    /\ (rp.alpha * rp.alpha_inv) % (QUOTIENT - 1) = 1
    /\ \A i, j \in 1 .. rp.m :
          MatrixRow(rp.mds_inv[i], [k \in 1 .. rp.m |-> rp.mds[k][j]], rp.m)
              = IF i = j THEN 1 ELSE 0

\* omicron^0, .., omicron^(steps_count - 1) are pairwise distinct
DistinctDomainPoints ==
    \A k \in 1 .. rp.steps_count - 1 : FieldPower(omicron, k) /= 1

\* the point (omicron^i, trace[i], trace[i + 1]), for 0 <= i < steps_count
AirPoint(i) == <<FieldPower(omicron, i)>> \o traced[i + 1] \o traced[i + 2]

AirVanishesOnTrace ==
    \A i \in 0 .. rp.steps_count - 1 :
        \A k \in 1 .. rp.m : MEvaluate(air[k], AirPoint(i)) = 0

RoundConstantsInterpolated ==
    \A r \in 0 .. rp.steps_count - 1 :
        \A i \in 1 .. rp.m :
            /\ MEvaluate(rc_pols[1][i], <<FieldPower(omicron, r)>>)
                  = rp.round_constants[2 * r * rp.m + i]
            /\ MEvaluate(rc_pols[2][i], <<FieldPower(omicron, r)>>)
                  = rp.round_constants[2 * r * rp.m + rp.m + i]

C10_RoundConstantPolynomials ==
    rc_pols /= <<>> => RoundConstantsInterpolated

\* C10 (amended): the same, for an omicron whose powers omicron^0, ..,
\* omicron^(steps_count - 1) are pairwise distinct.
C10_RoundConstantPolynomialsOnDistinctDomain ==
    (rc_pols /= <<>> /\ DistinctDomainPoints) => RoundConstantsInterpolated

C10_Witness ==
    /\ rc_pols /= <<>>
    /\ rp.steps_count = MaxSteps
    /\ rp.m = 3
    /\ MultiplicativeOrder(omicron) = MaxSteps
    /\ Len(rp.round_constants) = 2 * MaxSteps * rp.m
    /\ MEvaluate(rc_pols[2][3], <<FieldPower(omicron, MaxSteps - 1)>>)
          = rp.round_constants[2 * MaxSteps * rp.m]

----------------------------------------------------------------------------
(* hash, eval_and_trace and get_boundary_constraints: SpecHash *)

MaxHashInput == 3

HashInit ==
    /\ NoCall
    /\ NoOperands
    /\ NoBytes
    /\ NoVector
    /\ NoRoot
    /\ rp \in Params
    /\ input \in (0 .. MaxHashInput) \cup ((MAX - MaxHashInput) .. MAX)
    /\ omicron = 0
    /\ traced = <<>>
    /\ rc_pols = <<>>
    /\ air = <<>>
    /\ NoHash
    /\ NoMmr

\* hash, lines 81-82: state = (input, 0, .., 0)
HashBegin ==
    /\ hash_state = <<>>
    /\ hash_state' = InitialState(rp, input)
    /\ hash_round_number' = 0
    /\ UNCHANGED <<mmrVars, fieldVars, rescueVars, hashed, evaled, boundary>>

\* hash, line 84: one step of the fold over 0 .. steps_count
HashRound ==
    /\ hash_state /= <<>>
    /\ hashed = None
    /\ hash_round_number < rp.steps_count
    /\ hash_state' = hash_round(rp, hash_state, hash_round_number)
    /\ hash_round_number' = hash_round_number + 1
    /\ UNCHANGED <<mmrVars, fieldVars, rescueVars, hashed, evaled, boundary>>

\* hash, line 86: state[0] is returned
HashReturn ==
    /\ hash_state /= <<>>
    /\ hashed = None
    /\ hash_round_number = rp.steps_count
    /\ hashed' = Some(hash_state[1])
    /\ UNCHANGED <<mmrVars, fieldVars, rescueVars, hash_state, hash_round_number,
                   evaled, boundary>>

\* eval_and_trace: it calls trace and returns the first register of the
\* last row with the trace
CallEvalAndTrace ==
    /\ evaled = <<>>
    /\ traced' = trace(rp, input)
    /\ evaled' = <<traced'[Len(traced')][1], traced'>>
    /\ UNCHANGED <<mmrVars, fieldVars, rp, input, omicron, rc_pols, air,
                   hash_state, hash_round_number, hashed, boundary>>

\* get_boundary_constraints(hash(input))
CallGetBoundaryConstraints ==
    /\ hashed.some
    /\ boundary = <<>>
    /\ boundary' = get_boundary_constraints(rp, hashed.val)
    /\ UNCHANGED <<mmrVars, fieldVars, rescueVars, hash_state, hash_round_number,
                   hashed, evaled>>

HashNext ==
    \/ HashBegin
    \/ HashRound
    \/ HashReturn
    \/ CallEvalAndTrace
    \/ CallGetBoundaryConstraints

SpecHash == HashInit /\ [][HashNext]_vars

\* C11: for every input x (m >= 2), trace(x) has steps_count + 1 rows of m
\* elements, row 0 is (x, 0, .., 0), and the trace satisfies both
\* constraints of get_boundary_constraints(hash(x)): trace(x)[0][1] = 0 and
\* trace(x)[steps_count][0] = hash(x), which eval_and_trace(x) returns too.
C11_TraceMeetsBoundary ==
    (evaled /= <<>> /\ boundary /= <<>>) =>
        /\ Len(traced) = rp.steps_count + 1
        /\ \A r \in 1 .. Len(traced) : Len(traced[r]) = rp.m
        /\ traced[1] = [i \in 1 .. rp.m |-> IF i = 1 THEN input ELSE 0]
        /\ Len(boundary) = 2
        /\ \A k \in 1 .. Len(boundary) :
              traced[boundary[k].cycle + 1][boundary[k].register + 1]
                  = boundary[k].value
        /\ traced[1][2] = 0
        /\ traced[rp.steps_count + 1][1] = hashed.val
        /\ evaled = <<hashed.val, traced>>

C11_Witness ==
    /\ evaled /= <<>>
    /\ boundary /= <<>>
    /\ rp.steps_count = MaxSteps
    /\ rp.m = 3
    /\ input = MAX
    /\ hashed.val /= 0
    /\ boundary[2] = [cycle |-> MaxSteps, register |-> 0, value |-> evaled[1]]

----------------------------------------------------------------------------
(* Merkle mountain ranges: digests and index arithmetic (mmr::shared) *)

\* Hasher: a digest is <<v>> for the leaf value v, or the pair of the two
\* digests that hash_pair was given; no two inputs share a digest.
ToDigest(v) == <<v>>
hash_pair(left, right) == <<left, right>>
\* hash_with_salts of two digests and the node count
hash_with_salts(left, right, salt) == <<left, right, <<salt>>>>

left_child(node_index, height) == node_index - Pow2(height)
right_child(node_index) == node_index - 1

\* the leftmost node of the form 2^(h+1) - 1 not below node_index: <<node, h>>
RECURSIVE LeftmostAncestorLoop(_, _, _)
LeftmostAncestorLoop(node_index, ret, h) ==
    IF ret < node_index
    THEN LeftmostAncestorLoop(node_index, Pow2(h + 2) - 1, h + 1)
    ELSE <<ret, h>>

leftmost_ancestor(node_index) == LeftmostAncestorLoop(node_index, 1, 0)

\* the descent from the leftmost ancestor to node_index
RECURSIVE RightChildLoop(_, _, _)
RightChildLoop(node_index, candidate, candidate_height) ==
    LET left == left_child(candidate, candidate_height)
        candidate_is_right_child == left < node_index
        next == IF candidate_is_right_child THEN right_child(candidate)
                ELSE left
    IN  IF next = node_index
        THEN <<candidate_is_right_child, candidate_height - 1>>
        ELSE RightChildLoop(node_index, next, candidate_height - 1)

\* <<is node_index a right child, the height of node_index>>
right_child_and_height(node_index) ==
    LET ancestor == leftmost_ancestor(node_index)
    IN  IF ancestor[1] = node_index THEN <<FALSE, ancestor[2]>>
        ELSE RightChildLoop(node_index, ancestor[1], ancestor[2])

parent(node_index) ==
    LET rh == right_child_and_height(node_index)
    IN  IF rh[1] THEN node_index + 1 ELSE node_index + Pow2(rh[2] + 1)

left_sibling(node_index, height) == node_index - Pow2(height + 1) + 1
right_sibling(node_index, height) == node_index + Pow2(height + 1) - 1

\* floor(log2(value)), for value >= 1
RECURSIVE log_2_floor(_)
log_2_floor(value) == IF value <= 1 THEN 0 ELSE 1 + log_2_floor(value \div 2)

\* the number of non-leaf nodes to the left of the leaf data_index
RECURSIVE non_leaf_nodes_left(_)
non_leaf_nodes_left(data_index) ==
    IF data_index = 0 THEN 0
    ELSE LET left_data_height == log_2_floor(data_index)
         IN  Pow2(left_data_height) - 1
                 + non_leaf_nodes_left(data_index - Pow2(left_data_height))

data_index_to_node_index(data_index) ==
    data_index + non_leaf_nodes_left(data_index) + 1

\* the parents completed by the rightmost leaf, counted from node_index up
RECURSIVE NonLeafNodesAfter(_)
NonLeafNodesAfter(node_index) ==
    IF right_child_and_height(node_index)[1]
    THEN 1 + NonLeafNodesAfter(node_index + 1)
    ELSE 0

leaf_count_to_node_count(count) ==
    IF count = 0 THEN 0
    ELSE NonLeafNodesAfter(data_index_to_node_index(count - 1))
             + non_leaf_nodes_left(count - 1) + count

\* the walk down from the right sibling of the last peak found
RECURSIVE PeakLoop(_, _, _, _)
PeakLoop(found, candidate, height, node_count) ==
    IF height = 0 THEN found
    ELSE LET next == left_child(candidate, height)
         IN  IF next <= node_count
             THEN PeakLoop([heights |-> Append(found.heights, height - 1),
                            indices |-> Append(found.indices, next)],
                           right_sibling(next, height - 1), height - 1,
                           node_count)
             ELSE PeakLoop(found, next, height - 1, node_count)

\* [heights, indices] of the peaks, from the highest mountain to the lowest
get_peak_heights_and_peak_node_indices(count) ==
    IF count = 0 THEN [heights |-> <<>>, indices |-> <<>>]
    ELSE LET node_count == leaf_count_to_node_count(count)
             ancestor ==
                 leftmost_ancestor(data_index_to_node_index(count - 1))
             top == IF ancestor[1] > node_count
                    THEN <<left_child(ancestor[1], ancestor[2]),
                           ancestor[2] - 1>>
                    ELSE ancestor
         IN  PeakLoop([heights |-> <<top[2]>>, indices |-> <<top[1]>>],
                      right_sibling(top[1], top[2]), top[2], node_count)

\* the first position of value in the sequence, as an Option
Position(s, value) ==
    IF \E k \in 1 .. Len(s) : s[k] = value
    THEN Some(CHOOSE k \in 1 .. Len(s) :
                  s[k] = value /\ \A j \in 1 .. k - 1 : s[j] /= value)
    ELSE None

\* the position of the first peak that is not to the left of node_index
FirstPeakFrom(indices, node_index) ==
    CHOOSE k \in 1 .. Len(indices) :
        /\ node_index <= indices[k]
        /\ \A j \in 1 .. k - 1 : node_index > indices[j]

\* the height of the mountain that holds the leaf data_index, as an Option
get_peak_height(count, data_index) ==
    IF data_index >= count THEN None
    ELSE Some(get_peak_heights_and_peak_node_indices(count).heights[
                  FirstPeakFrom(
                      get_peak_heights_and_peak_node_indices(count).indices,
                      data_index_to_node_index(data_index))])

\* the index in peaks of the mountain that holds the leaf data_index
leaf_index_to_peak_index(data_index, count) ==
    Position(get_peak_heights_and_peak_node_indices(count).heights,
             get_peak_height(count, data_index).val).val - 1

----------------------------------------------------------------------------
(* The archival MMR: the mountains built directly over a leaf list *)

\* the root of the perfect tree over 2^h leaves
RECURSIVE MerkleRoot(_)
MerkleRoot(leafs) ==
    IF Len(leafs) = 1 THEN leafs[1]
    ELSE LET half == Len(leafs) \div 2
         IN  hash_pair(MerkleRoot(SubSeq(leafs, 1, half)),
                       MerkleRoot(SubSeq(leafs, half + 1, Len(leafs))))

\* ArchivalMmr::new(leafs).get_peaks(): one mountain per set bit of the
\* number of leaves, the highest mountain first
RECURSIVE ArchivalPeaks(_)
ArchivalPeaks(leafs) ==
    IF Len(leafs) = 0 THEN <<>>
    ELSE LET size == Pow2(log_2_floor(Len(leafs)))
         IN  <<MerkleRoot(SubSeq(leafs, 1, size))>>
                 \o ArchivalPeaks(SubSeq(leafs, size + 1, Len(leafs)))

\* the siblings on the way from leaf k (from 1) to the root of a perfect tree
RECURSIVE AuthenticationPath(_, _)
AuthenticationPath(leafs, k) ==
    IF Len(leafs) = 1 THEN <<>>
    ELSE LET half == Len(leafs) \div 2
             left == SubSeq(leafs, 1, half)
             right == SubSeq(leafs, half + 1, Len(leafs))
         IN  IF k <= half
             THEN Append(AuthenticationPath(left, k), MerkleRoot(right))
             ELSE Append(AuthenticationPath(right, k - half), MerkleRoot(left))

RECURSIVE MountainPath(_, _)
MountainPath(leafs, data_index) ==
    LET size == Pow2(log_2_floor(Len(leafs)))
    IN  IF data_index < size
        THEN AuthenticationPath(SubSeq(leafs, 1, size), data_index + 1)
        ELSE MountainPath(SubSeq(leafs, size + 1, Len(leafs)),
                          data_index - size)

\* ArchivalMmr::new(leafs).prove_membership(data_index).0
prove_membership(leafs, data_index) ==
    [data_index |-> data_index,
     authentication_path |-> MountainPath(leafs, data_index)]

----------------------------------------------------------------------------
(* Peaks after an append or a leaf mutation, membership proofs *)

\* the loop of calculate_new_peaks_from_append: while the new node is a
\* right child, the last two peaks are hashed into their parent
RECURSIVE AppendLoop(_, _, _)
AppendLoop(new_peaks, path, new_node_index) ==
    IF right_child_and_height(new_node_index)[1]
    THEN IF Len(new_peaks) < 2 THEN None
         ELSE LET new_hash == new_peaks[Len(new_peaks)]
                  previous_peak == new_peaks[Len(new_peaks) - 1]
              IN  AppendLoop(Append(SubSeq(new_peaks, 1, Len(new_peaks) - 2),
                                    hash_pair(previous_peak, new_hash)),
                             Append(path, previous_peak),
                             new_node_index + 1)
    ELSE Some([peaks |-> new_peaks, path |-> path])

\* Option of [peaks, membership_proof]
calculate_new_peaks_from_append(old_leaf_count, old_peaks, new_leaf) ==
    LET done == AppendLoop(Append(old_peaks, new_leaf), <<>>,
                           data_index_to_node_index(old_leaf_count))
    IN  IF done.some
        THEN Some([peaks |-> done.val.peaks,
                   membership_proof |->
                       [data_index |-> old_leaf_count,
                        authentication_path |-> done.val.path]])
        ELSE None

\* the digest the authentication path leads to, hashing from position k on
RECURSIVE ClimbPath(_, _, _, _)
ClimbPath(path, k, acc_hash, acc_index) ==
    IF k > Len(path) THEN acc_hash
    ELSE ClimbPath(path, k + 1,
                   IF right_child_and_height(acc_index)[1]
                   THEN hash_pair(path[k], acc_hash)
                   ELSE hash_pair(acc_hash, path[k]),
                   parent(acc_index))

\* s with its element at position k (from 1) replaced
ReplaceAt(s, k, value) == [j \in 1 .. Len(s) |-> IF j = k THEN value ELSE s[j]]

\* the position in peaks of the mountain of the expected height, as an Option
PeakPosition(heights, expected) ==
    IF expected.some THEN Position(heights, expected.val) ELSE None

\* is acc_hash the peak at the position, one peak being held per height
PeakIs(current_peaks, heights, position, acc_hash) ==
    /\ Len(heights) = Len(current_peaks)
    /\ position.some
    /\ current_peaks[position.val] = acc_hash

\* MembershipProof::verify(peaks, leaf_hash, leaf_count).0
verify(membership_proof, current_peaks, leaf_hash, count) ==
    PeakIs(current_peaks,
           get_peak_heights_and_peak_node_indices(count).heights,
           PeakPosition(get_peak_heights_and_peak_node_indices(count).heights,
                        get_peak_height(count, membership_proof.data_index)),
           ClimbPath(membership_proof.authentication_path, 1, leaf_hash,
                     data_index_to_node_index(membership_proof.data_index)))

\* the peaks with the one at the position replaced, None without a position
ReplacePeak(old_peaks, position, acc_hash) ==
    IF position.some THEN Some(ReplaceAt(old_peaks, position.val, acc_hash))
    ELSE None

\* Option of the peaks with the mutated mountain's peak replaced
calculate_new_peaks_from_leaf_mutation(old_peaks, new_leaf, count, membership_proof) ==
    ReplacePeak(old_peaks,
                PeakPosition(
                    get_peak_heights_and_peak_node_indices(count).heights,
                    get_peak_height(count, membership_proof.data_index)),
                ClimbPath(membership_proof.authentication_path, 1, new_leaf,
                          data_index_to_node_index(
                              membership_proof.data_index)))

\* MembershipProof::get_node_indices: the node indices of the siblings the
\* authentication path holds, from position k on
RECURSIVE NodeIndicesFrom(_, _, _)
NodeIndicesFrom(len, k, node_index) ==
    IF k > len THEN <<>>
    ELSE LET rh == right_child_and_height(node_index)
         IN  IF rh[1]
             THEN <<left_sibling(node_index, rh[2])>>
                      \o NodeIndicesFrom(len, k + 1, node_index + 1)
             ELSE <<right_sibling(node_index, rh[2])>>
                      \o NodeIndicesFrom(len, k + 1,
                                         node_index + Pow2(rh[2] + 1))

get_node_indices(membership_proof) ==
    NodeIndicesFrom(Len(membership_proof.authentication_path), 1,
                    data_index_to_node_index(membership_proof.data_index))

\* bag_peaks(peaks, node_count): the peaks folded from the last one, salted
\* with the node count
RECURSIVE BagLoop(_, _, _, _)
BagLoop(all_peaks, acc, i, node_count) ==
    IF i >= Len(all_peaks) THEN acc
    ELSE BagLoop(all_peaks,
                 hash_with_salts(all_peaks[Len(all_peaks) - i], acc, node_count),
                 i + 1, node_count)

shared_bag_peaks(all_peaks, node_count) ==
    IF Len(all_peaks) = 0 THEN hash_pair(ToDigest(0), ToDigest(0)) \* of zero
    ELSE IF Len(all_peaks) = 1 THEN all_peaks[1]
    ELSE BagLoop(all_peaks,
                 hash_with_salts(all_peaks[Len(all_peaks)],
                                 all_peaks[Len(all_peaks) - 1], node_count),
                 2, node_count)

----------------------------------------------------------------------------
(* MmrAccumulator *)

\* an accumulator: the two fields of the struct
Accumulator(count, current_peaks) ==
    [leaf_count |-> count, peaks |-> current_peaks]

\* impl From<&ArchivalMmr> for MmrAccumulator
FromArchival(leafs) == Accumulator(Len(leafs), ArchivalPeaks(leafs))

\* new over the digests in reverse order
MmrAccumulatorOfReversed(digests) ==
    Accumulator(Len(digests), ArchivalPeaks(Reverse(digests)))

\* MmrAccumulator::new
MmrAccumulatorNew(digests) == Accumulator(Len(digests), ArchivalPeaks(digests))

bag_peaks(self) ==
    shared_bag_peaks(self.peaks, leaf_count_to_node_count(self.leaf_count))

get_peaks(self) == self.peaks

is_empty(self) == self.leaf_count = 0

count_leaves(self) == self.leaf_count

\* append that forgets to count the leaf
append_keeping_leaf_count(self, new_leaf) ==
    LET done == calculate_new_peaks_from_append(self.leaf_count, self.peaks,
                                                new_leaf)
    IN  IF ~done.some
        THEN [panicked |-> TRUE, self |-> self, ret |-> <<>>]
        ELSE [panicked |-> FALSE,
              self |-> Accumulator(self.leaf_count, done.val.peaks),
              ret |-> done.val.membership_proof]

\* append: [panicked, self after the call, the membership proof returned]
append(self, new_leaf) ==
    LET done == calculate_new_peaks_from_append(self.leaf_count, self.peaks,
                                                new_leaf)
    IN  IF ~done.some
        THEN [panicked |-> TRUE, self |-> self, ret |-> <<>>]
        ELSE [panicked |-> FALSE,
              self |-> Accumulator(self.leaf_count + 1, done.val.peaks),
              ret |-> done.val.membership_proof]

\* mutate_leaf that takes the first peak for the mutated one and never
\* looks for the peak height
mutate_leaf_of_first_peak(self, old_membership_proof, new_leaf) ==
    LET acc_hash == ClimbPath(old_membership_proof.authentication_path, 1,
                              new_leaf,
                              data_index_to_node_index(
                                  old_membership_proof.data_index))
    IN  [panicked |-> FALSE,
         self |-> Accumulator(self.leaf_count,
                              ReplaceAt(self.peaks, 1, acc_hash))]

\* mutate_leaf: [panicked, self after the call]
mutate_leaf(self, old_membership_proof, new_leaf) ==
    LET acc_hash == ClimbPath(old_membership_proof.authentication_path, 1,
                              new_leaf,
                              data_index_to_node_index(
                                  old_membership_proof.data_index))
        peak_heights ==
            get_peak_heights_and_peak_node_indices(self.leaf_count).heights
        expected == get_peak_height(self.leaf_count,
                                    old_membership_proof.data_index)
    IN  IF ~expected.some
        THEN [panicked |-> TRUE, self |-> self]
        ELSE IF ~Position(peak_heights, expected.val).some
        THEN [panicked |-> TRUE, self |-> self]
        ELSE IF Position(peak_heights, expected.val).val > Len(self.peaks)
        THEN [panicked |-> TRUE, self |-> self]
        ELSE [panicked |-> FALSE,
              self |-> Accumulator(
                  self.leaf_count,
                  ReplaceAt(self.peaks,
                            Position(peak_heights, expected.val).val,
                            acc_hash))]

\* HashMap::insert and HashMap::get on new_ap_digests
MapInsert(map, key, value) ==
    [x \in (DOMAIN map) \cup {key} |-> IF x = key THEN value ELSE map[x]]

MapGetOr(map, key, default) == IF key \in DOMAIN map THEN map[key] ELSE default

\* the loop with every sibling taken from the authentication path
RECURSIVE BatchPathLoopFromPath(_, _, _, _, _)
BatchPathLoopFromPath(map, path, count, node_index, acc_hash) ==
    IF count >= Len(path) THEN [map |-> map, acc_hash |-> acc_hash]
    ELSE LET rh == right_child_and_height(node_index)
             next_hash == IF rh[1] THEN hash_pair(path[count + 1], acc_hash)
                          ELSE hash_pair(acc_hash, path[count + 1])
             next_index == IF rh[1] THEN node_index + 1
                           ELSE node_index + Pow2(rh[2] + 1)
             next_map == IF count < Len(path) - 1
                         THEN MapInsert(map, next_index, next_hash)
                         ELSE map
         IN  BatchPathLoopFromPath(next_map, path, count + 1, next_index,
                                   next_hash)

\* the loop over the authentication path of one mutation, from position
\* count (from 0) on: [map, acc_hash]
RECURSIVE BatchPathLoop(_, _, _, _, _)
BatchPathLoop(map, path, count, node_index, acc_hash) ==
    IF count >= Len(path) THEN [map |-> map, acc_hash |-> acc_hash]
    ELSE LET rh == right_child_and_height(node_index)
             hash == path[count + 1]
             next_hash ==
                 IF rh[1]
                 THEN hash_pair(MapGetOr(map, left_sibling(node_index, rh[2]),
                                         hash),
                                acc_hash)
                 ELSE hash_pair(acc_hash,
                                MapGetOr(map, right_sibling(node_index, rh[2]),
                                         hash))
             next_index == IF rh[1] THEN node_index + 1
                           ELSE node_index + Pow2(rh[2] + 1)
             next_map == IF count < Len(path) - 1
                         THEN MapInsert(map, next_index, next_hash)
                         ELSE map
         IN  BatchPathLoop(next_map, path, count + 1, next_index, next_hash)

\* the loop without the assertion on the former value
RECURSIVE BatchMutationLoopUnasserted(_, _, _, _, _)
BatchMutationLoopUnasserted(count, map, current_peaks, mutation_data, remaining) ==
    IF remaining = 0
    THEN [panicked |-> FALSE, map |-> map, peaks |-> current_peaks]
    ELSE LET ap == mutation_data[remaining][1]
             new_leaf == mutation_data[remaining][2]
             node_index == data_index_to_node_index(ap.data_index)
             walked == BatchPathLoop(MapInsert(map, node_index, new_leaf),
                                     ap.authentication_path, 0, node_index,
                                     new_leaf)
         IN  BatchMutationLoopUnasserted(
                 count, walked.map,
                 ReplaceAt(current_peaks,
                           leaf_index_to_peak_index(ap.data_index, count) + 1,
                           walked.acc_hash),
                 mutation_data, remaining - 1)

\* `while let Some((ap, new_leaf)) = mutation_data.pop()` with `remaining`
\* entries left: [panicked, map, peaks]; the peaks are those written before
\* the assertion failed, if it failed
RECURSIVE BatchMutationLoop(_, _, _, _, _)
BatchMutationLoop(count, map, current_peaks, mutation_data, remaining) ==
    IF remaining = 0
    THEN [panicked |-> FALSE, map |-> map, peaks |-> current_peaks]
    ELSE LET ap == mutation_data[remaining][1]
             new_leaf == mutation_data[remaining][2]
             node_index == data_index_to_node_index(ap.data_index)
             walked == BatchPathLoop(MapInsert(map, node_index, new_leaf),
                                     ap.authentication_path, 0, node_index,
                                     new_leaf)
         IN  IF node_index \in DOMAIN map
             THEN [panicked |-> TRUE, map |-> map, peaks |-> current_peaks]
             ELSE BatchMutationLoop(
                      count, walked.map,
                      ReplaceAt(current_peaks,
                                leaf_index_to_peak_index(ap.data_index, count)
                                    + 1,
                                walked.acc_hash),
                      mutation_data, remaining - 1)

\* one membership proof with the first digest the map knows replaced
UpdatedProofOnce(map, membership_proof) ==
    LET indices == get_node_indices(membership_proof)
        first == CHOOSE k \in 0 .. Len(indices) :
                     /\ k > 0 => indices[k] \in DOMAIN map
                     /\ \A j \in 1 .. Len(indices) :
                            indices[j] \in DOMAIN map => k > 0 /\ k <= j
    IN  [data_index |-> membership_proof.data_index,
         authentication_path |->
             [k \in 1 .. Len(membership_proof.authentication_path) |->
                 IF k = first THEN map[indices[k]]
                 ELSE membership_proof.authentication_path[k]]]

\* one membership proof with every digest the map knows replaced
UpdatedProof(map, membership_proof) ==
    LET indices == get_node_indices(membership_proof)
    IN  [data_index |-> membership_proof.data_index,
         authentication_path |->
             [k \in 1 .. Len(membership_proof.authentication_path) |->
                 MapGetOr(map, indices[k],
                          membership_proof.authentication_path[k])]]

\* the indices (from 0) of the proofs with a sibling in the map, ascending:
\* what is left of the pushed indices after dedup
RECURSIVE ModifiedIndices(_, _, _)
ModifiedIndices(map, membership_proofs, i) ==
    IF i > Len(membership_proofs) THEN <<>>
    ELSE LET indices == get_node_indices(membership_proofs[i])
             hit == \E k \in 1 .. Len(indices) : indices[k] \in DOMAIN map
         IN  (IF hit THEN <<i - 1>> ELSE <<>>)
                 \o ModifiedIndices(map, membership_proofs, i + 1)

\* batch_mutate_leaf_and_update_mps:
\* [panicked, self after, membership_proofs after, the indices returned];
\* a failed assertion leaves the peaks as the loop had written them and the
\* membership proofs as they were handed in
batch_mutate_leaf_and_update_mps(self, membership_proofs, mutation_data) ==
    LET done == BatchMutationLoop(self.leaf_count, <<>>, self.peaks,
                                  mutation_data, Len(mutation_data))
    IN  IF done.panicked
        THEN [panicked |-> TRUE,
              self |-> Accumulator(self.leaf_count, done.peaks),
              membership_proofs |-> membership_proofs, ret |-> <<>>]
        ELSE [panicked |-> FALSE,
              self |-> Accumulator(self.leaf_count, done.peaks),
              membership_proofs |->
                  [i \in 1 .. Len(membership_proofs) |->
                      UpdatedProof(done.map, membership_proofs[i])],
              ret |-> ModifiedIndices(done.map, membership_proofs, 1)]

----------------------------------------------------------------------------
(* The accumulator in use: construction, append, mutation with valid proofs *)

MaxLeaves == 4       \* append is not called on this many leaves or more
MaxInitialLeaves == 1 \* new is handed at most this many digests
MaxMutations == 2    \* a batch mutates at most this many leaves

\* the leaf digests in use: those of 14 and 15
Leaves == {ToDigest(14), ToDigest(15)}

LeafLists(max_len) == UNION {[1 .. k -> Leaves] : k \in 0 .. max_len}

\* the lists of at most max_len pairwise distinct data indices below count
DistinctIndices(count, max_len) ==
    {idx \in UNION {[1 .. k -> 0 .. count - 1] : k \in 0 .. max_len} :
        \A i, j \in 1 .. Len(idx) : i /= j => idx[i] /= idx[j]}

\* the proofs of all leaves, as a caller keeps them
AllProofs(leafs) == [i \in 1 .. Len(leafs) |-> prove_membership(leafs, i - 1)]

\* the leaf list after the mutations in mutation_data, by the caller's book
RECURSIVE Mutated(_, _, _)
Mutated(leafs, mutation_data, k) ==
    IF k > Len(mutation_data) THEN leafs
    ELSE Mutated(ReplaceAt(leafs, mutation_data[k][1].data_index + 1,
                           mutation_data[k][2]),
                 mutation_data, k + 1)

\* MmrAccumulator::new(digests), nothing else in use
ConstructedFrom(lists) ==
    /\ NoCall
    /\ NoOperands
    /\ NoBytes
    /\ NoVector
    /\ NoRoot
    /\ rp = NoParams
    /\ input = 0
    /\ omicron = 0
    /\ traced = <<>>
    /\ rc_pols = <<>>
    /\ air = <<>>
    /\ NoHash
    /\ \E digests \in lists :
        /\ accumulator = MmrAccumulatorNew(digests)
        /\ leaf_hashes = digests
        /\ initial_leaves = Len(digests)
    /\ appends = 0
    /\ last = NoMethod

MmrInit == ConstructedFrom(LeafLists(MaxInitialLeaves))

CallAppend ==
    /\ \E new_leaf \in Leaves :
        \E done \in {append(accumulator, new_leaf)} :
            /\ accumulator' = done.self
            /\ leaf_hashes' = IF done.panicked THEN leaf_hashes
                              ELSE Append(leaf_hashes, new_leaf)
            /\ appends' = IF done.panicked THEN appends ELSE appends + 1
            /\ last' = [NoMethod EXCEPT !.method = "append",
                                        !.panicked = done.panicked,
                                        !.before = accumulator,
                                        !.leafs = leaf_hashes,
                                        !.new_leaf = new_leaf,
                                        !.membership_proof =
                                            IF done.panicked THEN @
                                            ELSE done.ret]
    /\ UNCHANGED <<fieldVars, rescueVars, hashVars, initial_leaves>>

\* mutate_leaf with the proof that is valid for the leaf
CallMutateLeaf ==
    /\ \E data_index \in 0 .. accumulator.leaf_count - 1, new_leaf \in Leaves :
        \E proof \in {prove_membership(leaf_hashes, data_index)} :
        \E done \in {mutate_leaf(accumulator, proof, new_leaf)} :
            /\ accumulator' = done.self
            /\ leaf_hashes' = IF done.panicked THEN leaf_hashes
                              ELSE ReplaceAt(leaf_hashes, data_index + 1,
                                             new_leaf)
            /\ last' = [NoMethod EXCEPT !.method = "mutate_leaf",
                                        !.panicked = done.panicked,
                                        !.before = accumulator,
                                        !.leafs = leaf_hashes,
                                        !.new_leaf = new_leaf,
                                        !.membership_proof = proof]
    /\ UNCHANGED <<fieldVars, rescueVars, hashVars, initial_leaves, appends>>

\* batch_mutate_leaf_and_update_mps with valid proofs of distinct leaves,
\* handed the proofs of all leaves to update
CallBatchMutate ==
    /\ \E idx \in DistinctIndices(accumulator.leaf_count, MaxMutations) :
        \E new_leafs \in [1 .. Len(idx) -> Leaves] :
        \E mutation_data \in
            {[k \in 1 .. Len(idx) |->
                <<prove_membership(leaf_hashes, idx[k]), new_leafs[k]>>]} :
        \E done \in {batch_mutate_leaf_and_update_mps(
                         accumulator, AllProofs(leaf_hashes), mutation_data)} :
            /\ accumulator' = done.self
            /\ leaf_hashes' = IF done.panicked THEN leaf_hashes
                              ELSE Mutated(leaf_hashes, mutation_data, 1)
            /\ last' =
                   [NoMethod EXCEPT
                       !.method = "batch_mutate_leaf_and_update_mps",
                       !.panicked = done.panicked,
                       !.before = accumulator,
                       !.leafs = leaf_hashes,
                       !.mutation_data = mutation_data,
                       !.membership_proofs = done.membership_proofs,
                       !.indices = done.ret]
    /\ UNCHANGED <<fieldVars, rescueVars, hashVars, initial_leaves, appends>>

\* the caller is done with the results of the call and moves on
MoveOn ==
    /\ last.method /= "none"
    /\ last' = NoMethod
    /\ UNCHANGED <<fieldVars, rescueVars, hashVars, accumulator, leaf_hashes,
                   initial_leaves, appends>>

MmrNext ==
    \/ /\ last.method = "none"
       /\ accumulator.leaf_count < MaxLeaves
       /\ CallAppend
    \/ /\ last.method = "none"
       /\ CallMutateLeaf
    \/ /\ last.method = "none"
       /\ CallBatchMutate
    \/ MoveOn

SpecMmr == MmrInit /\ [][MmrNext]_vars

\* the height of the perfect binary tree the digest is the root of,
\* and -1 if it is the root of none
RECURSIVE PerfectHeight(_)
PerfectHeight(digest) ==
    IF Len(digest) = 1 THEN 0
    ELSE IF Len(digest) /= 2 THEN -1
    ELSE LET l == PerfectHeight(digest[1])
             r == PerfectHeight(digest[2])
         IN  IF l >= 0 /\ l = r THEN l + 1 ELSE -1

\* the positions of the set bits of count, from bit `bit` down
RECURSIVE SetBitsDescending(_, _)
SetBitsDescending(count, bit) ==
    IF bit < 0 THEN <<>>
    ELSE (IF (count \div Pow2(bit)) % 2 = 1 THEN <<bit>> ELSE <<>>)
             \o SetBitsDescending(count, bit - 1)

\* C12: in every state reached from new(digests) (the empty accumulator
\* included) by append, mutate_leaf with a valid proof and
\* batch_mutate_leaf_and_update_mps with valid proofs of distinct leaves,
\* leaf_count is the number of initial leaves plus the number of appends
\* and the peaks are the roots of one perfect tree per set bit of
\* leaf_count, the highest first
C12_ShapeInvariant ==
    /\ ~last.panicked
    /\ accumulator.leaf_count = initial_leaves + appends
    /\ [k \in 1 .. Len(accumulator.peaks) |->
           PerfectHeight(accumulator.peaks[k])]
           = SetBitsDescending(accumulator.leaf_count, BITS)

\* two mountains, some of the leaves initial and some appended, after a batch
\* mutation of two leaves
C12_Witness ==
    /\ Len(accumulator.peaks) = 2
    /\ initial_leaves > 0
    /\ appends > 0
    /\ last.method = "batch_mutate_leaf_and_update_mps"
    /\ Len(last.mutation_data) = 2

----------------------------------------------------------------------------
(* Appends only *)

MaxAppends == 5      \* append is called at most this many times

AppendNext ==
    /\ appends < MaxAppends
    /\ CallAppend

SpecAppend == MmrInit /\ [][AppendNext]_vars

\* the height of the lowest mountain of an MMR of count > 0 leaves: the one
\* that holds the last leaf
LowestMountainHeight(count) ==
    LET bits == SetBitsDescending(count, BITS) IN bits[Len(bits)]

\* C13: after any sequence of appends, append(leaf) adds one to leaf_count
\* and returns a proof whose data_index is the leaf_count before the call,
\* whose path is as long as the mountain holding the new leaf is high, and
\* which verifies the leaf against the peaks and leaf_count after the call
C13_AppendProof ==
    last.method = "append" =>
        /\ ~last.panicked
        /\ accumulator.leaf_count = last.before.leaf_count + 1
        /\ last.membership_proof.data_index = last.before.leaf_count
        /\ Len(last.membership_proof.authentication_path)
               = LowestMountainHeight(accumulator.leaf_count)
        /\ verify(last.membership_proof, accumulator.peaks, last.new_leaf,
                  accumulator.leaf_count)

\* the fourth leaf appended: the proof has two digests
C13_Witness ==
    /\ last.method = "append"
    /\ accumulator.leaf_count = 4
    /\ Len(last.membership_proof.authentication_path) = 2
    /\ appends > 1

\* C14: the accumulator made by appending the leaves of L one by one to
\* the empty accumulator has the peaks, bag_peaks, is_empty and
\* count_leaves of new(L) and of the accumulator converted from the
\* archival MMR over L
C14_AppendsAgreeWithNew ==
    (initial_leaves = 0 /\ appends = Len(leaf_hashes)) =>
        \A other \in {MmrAccumulatorNew(leaf_hashes),
                       FromArchival(leaf_hashes)} :
            /\ get_peaks(accumulator) = get_peaks(other)
            /\ bag_peaks(accumulator) = bag_peaks(other)
            /\ is_empty(accumulator) = is_empty(other)
            /\ count_leaves(accumulator) = count_leaves(other)

\* three different leaves appended to the empty accumulator: two peaks
C14_Witness ==
    /\ initial_leaves = 0
    /\ appends = 3
    /\ Len(get_peaks(accumulator)) = 2
    /\ leaf_hashes[1] /= leaf_hashes[2]
    /\ ~is_empty(accumulator)

----------------------------------------------------------------------------
(* Mutation with valid proofs *)

\* which mountain (from 1, the highest first) holds the leaf data_index,
\* the mountains having the heights in bits from position k on and `before`
\* leaves lying left of mountain k
RECURSIVE MountainFrom(_, _, _, _)
MountainFrom(data_index, bits, k, before) ==
    IF k > Len(bits) THEN 0
    ELSE IF data_index < before + Pow2(bits[k]) THEN k
    ELSE MountainFrom(data_index, bits, k + 1, before + Pow2(bits[k]))

MountainOf(data_index, count) ==
    MountainFrom(data_index, SetBitsDescending(count, BITS), 1, 0)

\* C15: for an accumulator over L and a proof that verifies L[i], after
\* mutate_leaf(proof, d) the peaks are the peaks of the MMR over L with
\* L[i] replaced by d, leaf_count and every peak but that of the mountain
\* of leaf i are as before, and the proof verifies d against the new peaks
C15_MutateLeafValid ==
    (/\ last.method = "mutate_leaf"
     /\ verify(last.membership_proof, last.before.peaks,
               last.leafs[last.membership_proof.data_index + 1],
               last.before.leaf_count)) =>
        /\ ~last.panicked
        /\ accumulator.peaks
               = ArchivalPeaks(ReplaceAt(last.leafs,
                                         last.membership_proof.data_index + 1,
                                         last.new_leaf))
        /\ accumulator.leaf_count = last.before.leaf_count
        /\ Len(accumulator.peaks) = Len(last.before.peaks)
        /\ \A k \in 1 .. Len(accumulator.peaks) :
               k /= MountainOf(last.membership_proof.data_index,
                               last.before.leaf_count)
                   => accumulator.peaks[k] = last.before.peaks[k]
        /\ verify(last.membership_proof, accumulator.peaks, last.new_leaf,
                  accumulator.leaf_count)

\* the third of three leaves, alone in the second mountain, gets another
\* value under its valid proof
C15_Witness ==
    /\ last.method = "mutate_leaf"
    /\ last.before.leaf_count = 3
    /\ last.membership_proof.data_index = 2
    /\ last.new_leaf /= last.leafs[3]
    /\ verify(last.membership_proof, last.before.peaks, last.leafs[3],
              last.before.leaf_count)
    /\ accumulator.peaks[2] = last.new_leaf
    /\ accumulator.peaks /= last.before.peaks

----------------------------------------------------------------------------
(* mutate_leaf with any membership proof *)

MaxPathLength == 2   \* the authentication paths handed in are this long
                     \* at most

\* the digests the paths are made of: the leaves and the roots over two
PathDigests == Leaves \cup {hash_pair(l, r) : l, r \in Leaves}

Paths == UNION {[1 .. k -> PathDigests] : k \in 0 .. MaxPathLength}

\* any membership proof, its data index in range or beyond it
AnyProofs ==
    {[data_index |-> i, authentication_path |-> path] :
        i \in 0 .. MaxLeaves, path \in Paths}

MutateAnyInit == ConstructedFrom(LeafLists(MaxLeaves))

\* one call of mutate_leaf, the proof anything the caller may hand in
CallMutateLeafAny ==
    /\ last.method = "none"
    /\ \E proof \in AnyProofs, new_leaf \in Leaves :
        \E done \in {mutate_leaf(accumulator, proof, new_leaf)} :
            /\ accumulator' = done.self
            /\ last' = [NoMethod EXCEPT !.method = "mutate_leaf",
                                        !.panicked = done.panicked,
                                        !.before = accumulator,
                                        !.leafs = leaf_hashes,
                                        !.new_leaf = new_leaf,
                                        !.membership_proof = proof]
    /\ UNCHANGED <<fieldVars, rescueVars, hashVars, leaf_hashes,
                   initial_leaves, appends>>

MutateAnyNext == CallMutateLeafAny

SpecMutateAny == MutateAnyInit /\ [][MutateAnyNext]_vars

\* the proof of the last call has its data index in range and does not
\* verify the leaf at that index against the peaks before the call
ForgedInRange ==
    /\ last.method = "mutate_leaf"
    /\ last.membership_proof.data_index < last.before.leaf_count
    /\ ~verify(last.membership_proof, last.before.peaks,
               last.leafs[last.membership_proof.data_index + 1],
               last.before.leaf_count)

\* C16: mutate_leaf does not check the proof: with a data index in range
\* and a path that does not verify against the current peaks it reports
\* no error and overwrites the peak of that mountain with what the path
\* leads to, so the peaks are not the peaks of the leaf list with that
\* leaf replaced
C16_ForgedProofCorrupts ==
    ForgedInRange =>
        /\ ~last.panicked
        /\ accumulator.leaf_count = last.before.leaf_count
        /\ accumulator.peaks
               = ReplaceAt(last.before.peaks,
                           MountainOf(last.membership_proof.data_index,
                                      last.before.leaf_count),
                           ClimbPath(
                               last.membership_proof.authentication_path, 1,
                               last.new_leaf,
                               data_index_to_node_index(
                                   last.membership_proof.data_index)))
        /\ accumulator.peaks
               /= ArchivalPeaks(ReplaceAt(last.leafs,
                                          last.membership_proof.data_index + 1,
                                          last.new_leaf))

\* a path of the right length with a wrong sibling, for the first of four
\* leaves: the one peak is overwritten
C16_Witness ==
    /\ ForgedInRange
    /\ last.before.leaf_count = 4
    /\ last.membership_proof.data_index = 0
    /\ Len(last.membership_proof.authentication_path) = 2
    /\ accumulator.peaks /= last.before.peaks
    /\ ~last.panicked

\* C17: mutate_leaf with a data index >= leaf_count (any call on an empty
\* accumulator included) panics and leaves peaks and leaf_count as they
\* were
C17_OutOfRangePanics ==
    (/\ last.method = "mutate_leaf"
     /\ last.membership_proof.data_index >= last.before.leaf_count) =>
        /\ last.panicked
        /\ accumulator = last.before

\* the data index one past the last leaf of a non-empty accumulator
C17_Witness ==
    /\ last.method = "mutate_leaf"
    /\ last.before.leaf_count = 3
    /\ last.membership_proof.data_index = 3
    /\ Len(last.membership_proof.authentication_path) = 1
    /\ last.panicked

----------------------------------------------------------------------------
(* verify_batch_update *)

\* has_unique_elements: no element of the list occurs twice
has_unique_elements(items) ==
    \A i, j \in 1 .. Len(items) : items[i] = items[j] => i = j

\* the digests deducible from a leaf mutation, by node index: the new leaf
\* and every node above it the authentication path leads through
RECURSIVE DeducibleHashes(_, _, _, _, _)
DeducibleHashes(map, path, k, node_index, acc_hash) ==
    IF k > Len(path) THEN map
    ELSE LET next_hash == IF right_child_and_height(node_index)[1]
                          THEN hash_pair(path[k], acc_hash)
                          ELSE hash_pair(acc_hash, path[k])
         IN  DeducibleHashes(MapInsert(map, parent(node_index), next_hash),
                             path, k + 1, parent(node_index), next_hash)

\* the first position of the path whose node index is a key of the map, 0
\* if there is none
RECURSIVE FirstDeducible(_, _, _)
FirstDeducible(map, indices, k) ==
    IF k > Len(indices) THEN 0
    ELSE IF indices[k] \in DOMAIN map THEN k
    ELSE FirstDeducible(map, indices, k + 1)

\* MembershipProof::batch_update_from_leaf_mutation: the proofs as it leaves
\* them, at most one digest of each path replaced
batch_update_from_leaf_mutation(membership_proofs, leaf_mutation_membership_proof, new_leaf) ==
    LET node_index == data_index_to_node_index(
                          leaf_mutation_membership_proof.data_index)
        map == DeducibleHashes(
                   MapInsert(<<>>, node_index, new_leaf),
                   leaf_mutation_membership_proof.authentication_path, 1,
                   node_index, new_leaf)
    IN  [i \in 1 .. Len(membership_proofs) |->
            LET indices == get_node_indices(membership_proofs[i])
                k == FirstDeducible(map, indices, 1)
            IN  IF k = 0 THEN membership_proofs[i]
                ELSE [membership_proofs[i] EXCEPT
                         !.authentication_path[k] = map[indices[k]]]]

\* the first loop with no update of the remaining proofs
RECURSIVE MutationsLoopWithoutUpdate(_, _, _, _)
MutationsLoopWithoutUpdate(running_peaks, count, target_values, proofs) ==
    IF Len(proofs) = 0 THEN Some(running_peaks)
    ELSE LET running_peaks_res == calculate_new_peaks_from_leaf_mutation(
                        running_peaks, Head(target_values), count,
                        Head(proofs))
         IN  IF ~running_peaks_res.some THEN None
             ELSE MutationsLoopWithoutUpdate(running_peaks_res.val, count,
                                             Tail(target_values),
                                             Tail(proofs))

\* the first loop of verify_batch_update: the mutations in the order they
\* were handed in, each updating the proofs of those that follow; None
\* where the method returns false
RECURSIVE MutationsLoop(_, _, _, _)
MutationsLoop(running_peaks, count, target_values, proofs) ==
    IF Len(proofs) = 0 THEN Some(running_peaks)
    ELSE LET running_peaks_res == calculate_new_peaks_from_leaf_mutation(
                        running_peaks, Head(target_values), count,
                        Head(proofs))
         IN  IF ~running_peaks_res.some THEN None
             ELSE MutationsLoop(running_peaks_res.val, count, Tail(target_values),
                                batch_update_from_leaf_mutation(
                                    Tail(proofs), Head(proofs),
                                    Head(target_values)))

\* the second loop: the appends in the order they were handed in
RECURSIVE AppendsLoop(_, _, _)
AppendsLoop(running_peaks, running_leaf_count, new_leafs) ==
    IF Len(new_leafs) = 0 THEN Some(running_peaks)
    ELSE LET append_res == calculate_new_peaks_from_append(
                        running_leaf_count, running_peaks, Head(new_leafs))
         IN  IF ~append_res.some THEN None
             ELSE AppendsLoop(append_res.val.peaks, running_leaf_count + 1,
                              Tail(new_leafs))

\* the largest element of a non-empty list
Max(items) ==
    CHOOSE x \in {items[i] : i \in 1 .. Len(items)} :
        \A i \in 1 .. Len(items) : items[i] <= x

\* verify_batch_update with the two checks on the data indices left out
verify_batch_update_unchecked(self, new_peaks, appended_leafs, leaf_mutations) ==
    LET mutated == MutationsLoop(
                       self.peaks, self.leaf_count,
                       [i \in 1 .. Len(leaf_mutations) |->
                           leaf_mutations[i][1]],
                       [i \in 1 .. Len(leaf_mutations) |->
                           leaf_mutations[i][2]])
    IN  IF ~mutated.some THEN FALSE
        ELSE LET appended == AppendsLoop(mutated.val, self.leaf_count,
                                         appended_leafs)
             IN  IF ~appended.some THEN FALSE
                 ELSE appended.val = new_peaks

\* verify_batch_update: the boolean it returns
verify_batch_update(self, new_peaks, appended_leafs, leaf_mutations) ==
    LET manipulated_leaf_indices ==
            [i \in 1 .. Len(leaf_mutations) |->
                leaf_mutations[i][2].data_index]
    IN  IF ~has_unique_elements(manipulated_leaf_indices) THEN FALSE
        ELSE IF \/ is_empty(self) /\ Len(manipulated_leaf_indices) /= 0
                \/ /\ Len(manipulated_leaf_indices) /= 0
                   /\ Max(manipulated_leaf_indices) >= self.leaf_count
        THEN FALSE
        ELSE LET mutated == MutationsLoop(
                                self.peaks, self.leaf_count,
                                [i \in 1 .. Len(leaf_mutations) |->
                                    leaf_mutations[i][1]],
                                [i \in 1 .. Len(leaf_mutations) |->
                                    leaf_mutations[i][2]])
             IN  IF ~mutated.some THEN FALSE
                 ELSE LET appended == AppendsLoop(mutated.val,
                                                  self.leaf_count,
                                                  appended_leafs)
                      IN  IF ~appended.some THEN FALSE
                          ELSE appended.val = new_peaks

MaxVerifyLeaves == 3 \* verify_batch_update is called on accumulators of
                     \* at most this many leaves
MaxAppended == 1     \* and is handed at most this many appended leaves

\* the other leaf digest
Other(digest) == CHOOSE x \in Leaves : x /= digest

\* new leaf values for len mutations: digest and the other one in turn
Alternating(digest, len) ==
    [k \in 1 .. len |-> IF k % 2 = 1 THEN digest ELSE Other(digest)]

\* the lists of at most max_len data indices up to count, count itself
\* being out of range
IndexLists(count, max_len) ==
    UNION {[1 .. k -> 0 .. count] : k \in 0 .. max_len}

\* the proof a caller holds for data_index: the valid one if there is such
\* a leaf, and one with an empty path if there is none
HeldProof(leafs, data_index) ==
    IF data_index < Len(leafs) THEN prove_membership(leafs, data_index)
    ELSE [data_index |-> data_index, authentication_path |-> <<>>]

\* leaf_mutations over the data indices idx, with the proofs held for them
MutationsOver(leafs, idx, digest) ==
    [k \in 1 .. Len(idx) |->
        <<Alternating(digest, Len(idx))[k], HeldProof(leafs, idx[k])>>]

\* proofs made from a valid one by replacing the first digest of the path
\* by the other leaf, by dropping the last digest or, if the path is empty,
\* by adding a digest
Tampered(proof) ==
    LET path == proof.authentication_path
    IN  IF Len(path) = 0
        THEN {[proof EXCEPT !.authentication_path = <<x>>] : x \in Leaves}
        ELSE {[proof EXCEPT !.authentication_path[1] = x] :
                 x \in Leaves \ {path[1]}}
             \cup {[proof EXCEPT !.authentication_path =
                                     SubSeq(path, 1, Len(path) - 1)]}

\* the leaf list after the leaf mutations and the appends, by the caller's
\* book
RECURSIVE Replaced(_, _, _)
Replaced(leafs, leaf_mutations, k) ==
    IF k > Len(leaf_mutations) THEN leafs
    ELSE Replaced(ReplaceAt(leafs, leaf_mutations[k][2].data_index + 1,
                            leaf_mutations[k][1]),
                  leaf_mutations, k + 1)

Updated(leafs, leaf_mutations, appended_leafs) ==
    Replaced(leafs, leaf_mutations, 1) \o appended_leafs

\* peaks a caller may claim: those of the list, those of every list that
\* differs from it in one leaf, and the peaks before the call
PeakCandidates(leafs, old_peaks) ==
    {old_peaks, ArchivalPeaks(leafs)}
        \cup {ArchivalPeaks(ReplaceAt(leafs, k, Other(leafs[k]))) :
                 k \in 1 .. Len(leafs)}

VerifyInit == ConstructedFrom(LeafLists(MaxVerifyLeaves))

\* the call and what it returned, recorded
Verified(new_peaks, appended_leafs, leaf_mutations) ==
    /\ last' = [NoMethod EXCEPT
                   !.method = "verify_batch_update",
                   !.before = accumulator,
                   !.leafs = leaf_hashes,
                   !.mutation_data = leaf_mutations,
                   !.new_peaks = new_peaks,
                   !.appended_leafs = appended_leafs,
                   !.returned = verify_batch_update(
                                    accumulator, new_peaks, appended_leafs,
                                    leaf_mutations)]
    /\ UNCHANGED <<fieldVars, rescueVars, hashVars, accumulator, leaf_hashes,
                   initial_leaves, appends>>

\* verify_batch_update with valid proofs of distinct leaves
CallVerifyHonest ==
    /\ last.method = "none"
    /\ \E idx \in DistinctIndices(accumulator.leaf_count, MaxMutations),
          digest \in Leaves, appended \in 0 .. MaxAppended :
       \E appended_leafs \in {Alternating(Other(digest), appended)} :
       \E leaf_mutations \in {MutationsOver(leaf_hashes, idx, digest)} :
       \E new_peaks \in PeakCandidates(
                            Updated(leaf_hashes, leaf_mutations, appended_leafs),
                            accumulator.peaks) :
           Verified(new_peaks, appended_leafs, leaf_mutations)

\* verify_batch_update with a data index twice or a data index out of range
CallVerifyBadIndices ==
    /\ last.method = "none"
    /\ \E idx \in IndexLists(accumulator.leaf_count, MaxMutations)
                    \ DistinctIndices(accumulator.leaf_count, MaxMutations),
          digest \in Leaves :
       \E appended_leafs \in {<<>>, <<digest>>} :
       \E new_peaks \in {accumulator.peaks,
                          ArchivalPeaks(leaf_hashes \o appended_leafs)} :
           Verified(new_peaks, appended_leafs,
                    MutationsOver(leaf_hashes, idx, digest))

\* verify_batch_update with distinct leaves in range, the proof of one of
\* them tampered with
CallVerifyForged ==
    /\ last.method = "none"
    /\ \E idx \in DistinctIndices(accumulator.leaf_count, MaxMutations),
          digest \in Leaves :
       \E t \in 1 .. Len(idx), appended_leafs \in {<<>>} :
       \E honest \in {MutationsOver(leaf_hashes, idx, digest)} :
       \E forged \in Tampered(honest[t][2]) :
       \E new_peaks \in PeakCandidates(
                            Updated(leaf_hashes, honest, appended_leafs),
                            accumulator.peaks) :
           Verified(new_peaks, appended_leafs,
                    [honest EXCEPT ![t] = <<honest[t][1], forged>>])

VerifyNext ==
    \/ CallVerifyHonest
    \/ CallVerifyBadIndices
    \/ CallVerifyForged

SpecVerify == VerifyInit /\ [][VerifyNext]_vars

\* the data indices of the leaf mutations of the last call
ManipulatedIndices ==
    [k \in 1 .. Len(last.mutation_data) |->
        last.mutation_data[k][2].data_index]

\* the k-th leaf mutation of the last call carries a proof that verifies
\* the leaf at its data index against the accumulator before the call
Authenticates(k) ==
    /\ ManipulatedIndices[k] < last.before.leaf_count
    /\ verify(last.mutation_data[k][2], last.before.peaks,
              last.leafs[ManipulatedIndices[k] + 1], last.before.leaf_count)

\* C18: verify_batch_update returns false, and does not panic, whenever
\* two leaf mutations have the same data index or one has a data index
\* >= leaf_count, whatever new_peaks and the appended leaves are
C18_BadIndicesRejected ==
    (/\ last.method = "verify_batch_update"
     /\ \/ \E i, j \in 1 .. Len(ManipulatedIndices) :
               i /= j /\ ManipulatedIndices[i] = ManipulatedIndices[j]
        \/ \E i \in 1 .. Len(ManipulatedIndices) :
               ManipulatedIndices[i] >= last.before.leaf_count) =>
        /\ ~last.panicked
        /\ ~last.returned

\* the same leaf mutated twice, back to the value it has, new_peaks the
\* peaks before the call
C18_Witness ==
    /\ last.method = "verify_batch_update"
    /\ Len(ManipulatedIndices) = 2
    /\ ManipulatedIndices[1] = ManipulatedIndices[2]
    /\ ManipulatedIndices[2] < last.before.leaf_count
    /\ last.mutation_data[2][1] = last.leafs[ManipulatedIndices[2] + 1]
    /\ last.new_peaks = last.before.peaks
    /\ ~last.returned

\* C19: verify_batch_update returns false if the proof of any leaf
\* mutation does not authenticate a leaf at its data index against the
\* current peaks, whatever new_peaks is
C19_UnauthenticatedRejected ==
    (/\ last.method = "verify_batch_update"
     /\ \E k \in 1 .. Len(last.mutation_data) : ~Authenticates(k)) =>
        ~last.returned

\* C20: with leaf mutations of distinct leaves in range, each with the
\* proof valid before any mutation, and any appended leaves,
\* verify_batch_update returns true exactly if new_peaks is the peaks of
\* the MMR over the list with the mutated leaves replaced and the appended
\* leaves added in order
C20_VerifyBatchUpdate ==
    (/\ last.method = "verify_batch_update"
     /\ has_unique_elements(ManipulatedIndices)
     /\ \A k \in 1 .. Len(last.mutation_data) : Authenticates(k)) =>
        (last.returned
            <=> last.new_peaks
                    = ArchivalPeaks(Updated(last.leafs, last.mutation_data,
                                            last.appended_leafs)))

\* the two leaves of the first mountain of three leaves mutated to
\* different values, the second before the first, and a leaf appended:
\* accepted
C20_Witness ==
    /\ last.method = "verify_batch_update"
    /\ last.before.leaf_count = 3
    /\ ManipulatedIndices = <<1, 0>>
    /\ \A k \in 1 .. 2 :
           /\ Authenticates(k)
           /\ last.mutation_data[k][1] /= last.leafs[ManipulatedIndices[k] + 1]
    /\ Len(last.appended_leafs) = 1
    /\ last.returned
    /\ last.new_peaks /= last.before.peaks

----------------------------------------------------------------------------
(* batch_mutate_leaf_and_update_mps with any data indices *)

MaxBatchLeaves == 4  \* the batch is called on accumulators of at most this
                     \* many leaves

Reversed(s) == [k \in 1 .. Len(s) |-> s[Len(s) + 1 - k]]

\* the membership proofs a caller hands in to be updated: those of all
\* leaves, from the first leaf or from the last
Supplies(leafs) == {AllProofs(leafs), Reversed(AllProofs(leafs))}

\* the lists of at most max_len data indices below count, repeats included
RepeatableIndices(count, max_len) ==
    UNION {[1 .. k -> 0 .. count - 1] : k \in 0 .. max_len}

BatchMutateInit == ConstructedFrom(LeafLists(MaxBatchLeaves))

\* batch_mutate_leaf_and_update_mps with proofs valid before the call, the
\* same leaf possibly mutated twice
CallBatchMutateAny ==
    /\ last.method = "none"
    /\ \E idx \in RepeatableIndices(accumulator.leaf_count, MaxMutations),
          digest \in Leaves, supplied \in Supplies(leaf_hashes) :
          \E mutation_data \in
              {[k \in 1 .. Len(idx) |->
                  <<prove_membership(leaf_hashes, idx[k]),
                    Alternating(digest, Len(idx))[k]>>]} :
          \E done \in {batch_mutate_leaf_and_update_mps(
                           accumulator, supplied, mutation_data)} :
              /\ accumulator' = done.self
              /\ leaf_hashes' = IF done.panicked THEN leaf_hashes
                                ELSE Mutated(leaf_hashes, mutation_data, 1)
              /\ last' =
                     [NoMethod EXCEPT
                         !.method = "batch_mutate_leaf_and_update_mps",
                         !.panicked = done.panicked,
                         !.before = accumulator,
                         !.leafs = leaf_hashes,
                         !.mutation_data = mutation_data,
                         !.supplied = supplied,
                         !.membership_proofs = done.membership_proofs,
                         !.indices = done.ret]
    /\ UNCHANGED <<fieldVars, rescueVars, hashVars, initial_leaves, appends>>

BatchMutateNext == CallBatchMutateAny

SpecBatchMutate == BatchMutateInit /\ [][BatchMutateNext]_vars

IsBatch == last.method = "batch_mutate_leaf_and_update_mps"

\* the data indices of mutation_data, in the order handed in
BatchIndices ==
    [k \in 1 .. Len(last.mutation_data) |->
        last.mutation_data[k][1].data_index]

\* the leaf replacements of mutation_data applied one by one with
\* mutate_leaf, from entry k on, each with the proof valid at its turn
RECURSIVE OneByOne(_, _, _, _)
OneByOne(self, leafs, mutation_data, k) ==
    IF k > Len(mutation_data) THEN self
    ELSE OneByOne(
             mutate_leaf(self,
                         prove_membership(leafs,
                                          mutation_data[k][1].data_index),
                         mutation_data[k][2]).self,
             ReplaceAt(leafs, mutation_data[k][1].data_index + 1,
                       mutation_data[k][2]),
             mutation_data, k + 1)

\* C21: for mutations of pairwise distinct leaves with membership proofs
\* valid before the call, batch_mutate_leaf_and_update_mps leaves the
\* accumulator with the peaks that mutate_leaf applied one by one leaves,
\* which are the peaks of the MMR over the leaf list with each mutated leaf
\* replaced, and leaves leaf_count unchanged
C21_BatchEquivalence ==
    (IsBatch /\ has_unique_elements(BatchIndices)) =>
        /\ ~last.panicked
        /\ accumulator.peaks
               = OneByOne(last.before, last.leafs, last.mutation_data, 1).peaks
        /\ accumulator.peaks
               = ArchivalPeaks(Mutated(last.leafs, last.mutation_data, 1))
        /\ accumulator.leaf_count = last.before.leaf_count

\* the first two leaves of a mountain of four leaves, both given a new
\* value
C21_Witness ==
    /\ IsBatch
    /\ last.before.leaf_count = 4
    /\ BatchIndices = <<0, 1>>
    /\ last.mutation_data[1][2] /= last.leafs[1]
    /\ last.mutation_data[2][2] /= last.leafs[2]
    /\ accumulator.peaks /= last.before.peaks
    /\ ~last.panicked

\* C22: after batch_mutate_leaf_and_update_mps with mutations of pairwise
\* distinct leaves and proofs valid before the call, the supplied membership
\* proofs are as many as before and in the same order, and each of them,
\* for a mutated or an unmutated leaf, verifies the value its leaf has
\* after the mutations against the new peaks and leaf_count
C22_ProofsUpdated ==
    (IsBatch /\ has_unique_elements(BatchIndices)) =>
        /\ Len(last.membership_proofs) = Len(last.supplied)
        /\ \A i \in 1 .. Len(last.supplied) :
               /\ last.membership_proofs[i].data_index
                      = last.supplied[i].data_index
               /\ verify(last.membership_proofs[i], accumulator.peaks,
                         leaf_hashes[last.supplied[i].data_index + 1],
                         accumulator.leaf_count)

\* four leaves, the proofs handed in from the last leaf to the first; the
\* second and the third leaf get new values, so both digests of the first
\* leaf's path are replaced
C22_Witness ==
    /\ IsBatch
    /\ last.before.leaf_count = 4
    /\ BatchIndices = <<1, 2>>
    /\ leaf_hashes[2] /= last.leafs[2]
    /\ leaf_hashes[3] /= last.leafs[3]
    /\ last.supplied[4].data_index = 0
    /\ last.membership_proofs[4].authentication_path[1]
           /= last.supplied[4].authentication_path[1]
    /\ last.membership_proofs[4].authentication_path[2]
           /= last.supplied[4].authentication_path[2]

\* the positions (from 0) in the supplied list, from position i on, of the
\* proofs whose authentication path after the call is not the one before
RECURSIVE ChangedPositions(_)
ChangedPositions(i) ==
    IF i > Len(last.supplied) THEN <<>>
    ELSE (IF last.membership_proofs[i].authentication_path
                 /= last.supplied[i].authentication_path
          THEN <<i - 1>> ELSE <<>>) \o ChangedPositions(i + 1)

\* C23: batch_mutate_leaf_and_update_mps returns exactly the positions, in
\* the supplied list, of the membership proofs whose authentication path
\* after the call differs from the path before the call, each once and in
\* ascending order
C23_ReturnsChanged ==
    (IsBatch /\ ~last.panicked) => last.indices = ChangedPositions(1)

\* C24: with proofs valid before the call, batch_mutate_leaf_and_update_mps
\* fails on the assertion on duplicated leaf indices exactly if two entries
\* of mutation_data have the same data_index; mutations of pairwise
\* distinct leaves never fail on it, whichever nodes their paths share
C24_DuplicateAssertion ==
    IsBatch => (last.panicked <=> ~has_unique_elements(BatchIndices))

\* the second leaf of four mutated twice: the assertion fails
C24_Witness ==
    /\ IsBatch
    /\ last.before.leaf_count = 4
    /\ BatchIndices = <<1, 1>>
    /\ last.panicked

\* C29: when batch_mutate_leaf_and_update_mps fails because mutation_data
\* holds a data_index twice, the peaks, leaf_count and the caller's
\* membership proofs are as they were before the call
C29_FailureLeavesUntouched ==
    (IsBatch /\ last.panicked) =>
        /\ accumulator = last.before
        /\ last.membership_proofs = last.supplied

\* the orders in which len entries can be handed in
Orders(len) ==
    {f \in [1 .. len -> 1 .. len] :
        \A i, j \in 1 .. len : f[i] = f[j] => i = j}

\* C28: for mutations of pairwise distinct leaves with proofs valid before
\* the call, batch_mutate_leaf_and_update_mps called with the entries of
\* mutation_data in any other order leaves the same peaks and the same
\* membership proofs and returns the same indices
C28_OrderIndependent ==
    (IsBatch /\ has_unique_elements(BatchIndices)) =>
        \A f \in Orders(Len(last.mutation_data)) :
            batch_mutate_leaf_and_update_mps(
                last.before, last.supplied,
                [k \in 1 .. Len(last.mutation_data) |->
                    last.mutation_data[f[k]]])
                = [panicked |-> FALSE, self |-> accumulator,
                   membership_proofs |-> last.membership_proofs,
                   ret |-> last.indices]

\* the second leaf handed in before the first, both in one mountain of
\* four leaves and both given a new value
C28_Witness ==
    /\ IsBatch
    /\ last.before.leaf_count = 4
    /\ BatchIndices = <<1, 0>>
    /\ leaf_hashes[1] /= last.leafs[1]
    /\ leaf_hashes[2] /= last.leafs[2]
    /\ Len(last.indices) = 4

----------------------------------------------------------------------------
(* Stepping through the field *)

\* C27: on an element holding v < p, increment leaves v + 1 mod p (p - 1
\* becomes 0) and decrement leaves v - 1 mod p (0 becomes p - 1), each
\* undoes the other, and new(v) holds v mod p, so that new(p) is the zero
\* element and new(p + 1) the one element
C27_IncrementDecrementNew ==
    /\ op = "increment" =>
          /\ res \in Canonical
          /\ \E k \in {0, 1} : res + k * QUOTIENT = a + 1
          /\ (a = MAX => res = 0)
          /\ decrement(res) = a
    /\ op = "decrement" =>
          /\ res \in Canonical
          /\ \E k \in {0, 1} : res = a - 1 + k * QUOTIENT
          /\ (a = 0 => res = MAX)
          /\ increment(res) = a
    /\ op = "new" =>
          /\ res \in Canonical
          /\ \E k \in 0 .. NewArg : res + k * QUOTIENT = NewArg
          /\ (NewArg = QUOTIENT => res = 0)
          /\ (NewArg = QUOTIENT + 1 => res = 1)

\* the largest element incremented: the zero element
C27_Witness == op = "increment" /\ a = MAX /\ res = 0 /\ decrement(res) = MAX

----------------------------------------------------------------------------
(* get_cyclic_group_elements(None): the loop, one iteration at a time *)

is_one(self) == self = 1

mul_assign(self, rhs) == (self * rhs) % QUOTIENT

GroupInit ==
    /\ NoCall
    /\ NoOperands
    /\ NoBytes
    /\ NoVector
    /\ NoRoot
    /\ NoRescue

\* the call on a non-zero element, up to the loop: val = *self and
\* ret = vec![self.ring_one()]
CallGetCyclicGroupElements ==
    /\ group.pc = "none"
    /\ \E self \in Canonical \ {0} :
           group' = [self |-> self, val |-> self, ret |-> <<1>>, pc |-> "loop"]
    /\ UNCHANGED <<op, a, b, c, res, failed, bytes, endian, run, vec, out, n,
                   root, primes>>
    /\ UNCHANGED <<rescueVars, hashVars, mmrVars>>

\* one iteration: push val, multiply it by self, leave the loop if it is
\* one (max is None)
LoopGetCyclicGroupElements ==
    /\ group.pc = "loop"
    /\ \E next \in {mul_assign(group.val, group.self)} :
           group' = [group EXCEPT !.ret = Append(@, group.val),
                                  !.val = next,
                                  !.pc = IF is_one(next) THEN "returned"
                                         ELSE "loop"]
    /\ UNCHANGED <<op, a, b, c, res, failed, bytes, endian, run, vec, out, n,
                   root, primes>>
    /\ UNCHANGED <<rescueVars, hashVars, mmrVars>>

GroupNext == CallGetCyclicGroupElements \/ LoopGetCyclicGroupElements

SpecGroup == GroupInit /\ [][GroupNext]_vars

\* C30: for every non-zero element g, what get_cyclic_group_elements(None)
\* returns is the list 1, g, g^2, .., g^(n-1) with n the multiplicative
\* order of g: n pairwise distinct elements, the first of them one
C30_CyclicGroupElements ==
    group.pc = "returned" =>
        /\ Len(group.ret) = MultiplicativeOrder(group.self)
        /\ \A k \in 1 .. Len(group.ret) :
               group.ret[k] = FieldPower(group.self, k - 1)
        /\ \A i, j \in 1 .. Len(group.ret) :
               group.ret[i] = group.ret[j] => i = j

----------------------------------------------------------------------------
(* The Rescue-Prime round against the six steps of its definition *)

\* every register raised to the power e
SBox(state, e) == collect([i \in 1 .. Len(state) |-> FieldPower(state[i], e)])

\* the sum of matrix_row[j] * state[j] over the first j registers
RECURSIVE DotProduct(_, _, _)
DotProduct(matrix_row, state, j) ==
    IF j = 0 THEN 0
    ELSE (DotProduct(matrix_row, state, j - 1) + matrix_row[j] * state[j])
             % QUOTIENT

MdsProduct(self, state) ==
    collect([i \in 1 .. self.m |-> DotProduct(self.mds[i], state, self.m)])

\* round constant first + i (indices from 0) added to register i
AddConstants(self, state, first) ==
    collect([i \in 1 .. self.m |->
        (state[i] + self.round_constants[first + i]) % QUOTIENT])

\* the six steps, in order
ReferenceRound(self, state, r) ==
    AddConstants(self,
        MdsProduct(self,
            SBox(AddConstants(self,
                     MdsProduct(self, SBox(state, self.alpha)),
                     2 * r * self.m),
                 self.alpha_inv)),
        2 * r * self.m + self.m)

\* the states after 0 .. upto reference rounds from (x, 0, .., 0), rounds in
\* increasing order
RECURSIVE ReferenceStates(_, _, _)
ReferenceStates(self, x, upto) ==
    IF upto = 0 THEN <<InitialState(self, x)>>
    ELSE LET states == ReferenceStates(self, x, upto - 1)
         IN  Append(states, ReferenceRound(self, states[upto], upto - 1))

\* self with the round constants from index 2 * steps_count * m on cut off
WithConstantsCut(self) ==
    [self EXCEPT !.round_constants =
        SubSeq(@, 1, 2 * self.steps_count * self.m)]

\* C26: hash_round(state, r) is the six-step round: every register to the
\* power alpha, times the MDS matrix, plus round_constants[2*r*m + i], every
\* register to the power alpha_inv, times the MDS matrix, plus
\* round_constants[2*r*m + m + i]; for r < steps_count it reads no round
\* constant at index 2*steps_count*m or above; and hash(x) is register 0
\* after rounds 0 .. steps_count - 1, in increasing order, on (x, 0, .., 0)
C26_HashRound ==
    /\ (hash_state /= <<>>) =>
           hash_state
               = ReferenceStates(rp, input, hash_round_number)[
                     hash_round_number + 1]
    /\ (hash_state /= <<>> /\ hash_round_number < rp.steps_count) =>
           /\ hash_round(rp, hash_state, hash_round_number)
                  = ReferenceRound(rp, hash_state, hash_round_number)
           /\ hash_round(WithConstantsCut(rp), hash_state, hash_round_number)
                  = hash_round(rp, hash_state, hash_round_number)
    /\ hashed.some =>
           hashed.val
               = ReferenceStates(rp, input, rp.steps_count)[
                     rp.steps_count + 1][1]

\* hash has returned after the most rounds on three registers, with more
\* round constants than the rounds read
C26_Witness ==
    /\ hashed.some
    /\ rp.steps_count = MaxSteps
    /\ rp.m = 3
    /\ Len(rp.round_constants) > 2 * rp.steps_count * rp.m
    /\ input = MAX
    /\ hashed.val = hash_state[1]
    /\ hashed.val /= input

====
